---------------------------- MODULE Spec2Model ----------------------------
(***************************************************************************)
(* A model of the TDS Virtual TA question-answering engine                 *)
(* (src/qa_engine.py), of the request layer that calls it (src/main.py)    *)
(* and of the scraper that writes the posts file the engine loads          *)
(* (src/scrape_discourse.py).                                              *)
(*                                                                         *)
(* Representation.  A Python str is a sequence of one-character strings,   *)
(* so that the text functions (preprocess_text, extract_keywords, strip,   *)
(* the substring test `in`) are computed character by character as the     *)
(* code computes them.  Python's None is the value None below.  A JSON     *)
(* object (a corpus record) is a TLA+ record whose DOMAIN is the set of    *)
(* keys the object has; dict.get(key, default) is Get.  Opaque values that *)
(* the engine only copies or tests for emptiness (urls) are TLA+ strings.  *)
(***************************************************************************)
EXTENDS Integers, Sequences, FiniteSets, TLC

VARIABLES
    posts_file,       \* data/tds_posts.json as the file system holds it
    content_file,     \* data/course_content.json as the file system holds it
    engine,           \* "absent" before QAEngine() has run, "ready" after
    discourse_posts,  \* QAEngine.discourse_posts
    course_content,   \* QAEngine.course_content
    loaded,           \* the corpora as the last run of load_data left them, and
                      \* the files as that run found them
    loader,           \* a caller of load_data on the constructed engine
    scraper,          \* DiscourseScraper.save_posts writing data/tds_posts.json
    th,               \* the worker threads running get_answer (asyncio.to_thread)
    stats,            \* the last value returned by get_stats
    call,             \* a direct caller of one engine method and what it got back
    norm              \* a direct caller of preprocess_text and what it got back

vars == << posts_file, content_file, engine, discourse_posts, course_content,
           loaded, loader, scraper, th, stats, call, norm >>

-----------------------------------------------------------------------------
(* Python values *)

None == << "<None>" >>

Min(a, b) == IF a <= b THEN a ELSE b

Max(a, b) == IF a >= b THEN a ELSE b

\* A slip of list[:n]: the whole list
TakeAll(s, n) == s

\* list[:n]
Take(s, n) == SubSeq(s, 1, Min(n, Len(s)))

\* The sequences of at most n elements of S
RECURSIVE SeqsUpTo(_, _)
SeqsUpTo(S, n) ==
    IF n = 0 THEN {<< >>}
    ELSE LET shorter == SeqsUpTo(S, n - 1)
         IN  shorter \cup {Append(s, x) : s \in {t \in shorter : Len(t) = n - 1}, x \in S}

\* dict.get(key, default)
Get(d, key, default) == IF key \in DOMAIN d THEN d[key] ELSE default

-----------------------------------------------------------------------------
(* Characters *)

\* A character of the Latin-1 range is the string that holds it.  A TLA+
\* string holds no character beyond that range, and of that range it does
\* not hold the grave accent: such a character is written by its code point
\* in hexadecimal, of four digits or more, as "U+0060", "U+2003" or
\* "U+1F600".

HexDigits ==
    <<"0", "1", "2", "3", "4", "5", "6", "7", "8", "9", "A", "B", "C", "D", "E", "F">>

\* c is a character written by its code point
ByCodePoint(c) == Len(c) > 1 /\ SubSeq(c, 1, 2) = "U+"

\* ord(c) of a character written by its code point: the number its
\* hexadecimal digits stand for, which start at the third character of c
CodePoint(c) ==
    LET RECURSIVE HexValue(_)
        HexValue(n) ==
            IF n < 3 THEN 0
            ELSE 16 * HexValue(n - 1)
                    + (CHOOSE d \in DOMAIN HexDigits : HexDigits[d] = SubSeq(c, n, n)) - 1
    IN  HexValue(Len(c))

\* chr(n), written by its code point
CodePointName(n) ==
    LET RECURSIVE HexName(_, _)
        HexName(m, digits) ==
            IF m = 0 /\ digits <= 0 THEN ""
            ELSE HexName(m \div 16, digits - 1) \o HexDigits[(m % 16) + 1]
    IN  "U+" \o HexName(n, 4)

\* n lies in one of the ranges << first, last >>
InRanges(n, table) == \E r \in table : r[1] <= n /\ n <= r[2]

LowerLetters ==
    <<"a", "b", "c", "d", "e", "f", "g", "h", "i", "j", "k", "l", "m",
      "n", "o", "p", "q", "r", "s", "t", "u", "v", "w", "x", "y", "z">>

UpperLetters ==
    <<"A", "B", "C", "D", "E", "F", "G", "H", "I", "J", "K", "L", "M",
      "N", "O", "P", "Q", "R", "S", "T", "U", "V", "W", "X", "Y", "Z">>

Digits == {"0", "1", "2", "3", "4", "5", "6", "7", "8", "9"}

\* the Latin-1 capitals beyond ASCII (U+00C0 to U+00DE but the sign U+00D7)
UpperLatin ==
    <<"À", "Á", "Â", "Ã", "Ä", "Å", "Æ", "Ç", "È", "É",
      "Ê", "Ë", "Ì", "Í", "Î", "Ï", "Ð", "Ñ", "Ò", "Ó",
      "Ô", "Õ", "Ö", "Ø", "Ù", "Ú", "Û", "Ü", "Ý", "Þ">>

\* what str.lower() makes of them, position by position
LowerLatin ==
    <<"à", "á", "â", "ã", "ä", "å", "æ", "ç", "è", "é",
      "ê", "ë", "ì", "í", "î", "ï", "ð", "ñ", "ò", "ó",
      "ô", "õ", "ö", "ø", "ù", "ú", "û", "ü", "ý", "þ">>

\* the Latin-1 characters beyond ASCII that \w matches and that have no other
\* case: U+00AA, U+00B2, U+00B3, U+00B5, U+00B9, U+00BA, U+00BC, U+00BD,
\* U+00BE, U+00DF, U+00FF
UncasedLatin == {"ª", "²", "³", "µ", "¹", "º", "¼", "½", "¾", "ß", "ÿ"}

\* LATIN CAPITAL LETTER I WITH DOT ABOVE, the one character that str.lower()
\* turns into two: i and COMBINING DOT ABOVE, U+0307
CapitalIWithDot == "U+0130"

\* GREEK CAPITAL LETTER SIGMA, which str.lower() turns into one of two
\* characters by the letters around it: GREEK SMALL LETTER SIGMA, U+03C3, and
\* GREEK SMALL LETTER FINAL SIGMA, U+03C2
CapitalSigma == "U+03A3"

\* the characters the regex class \s and str.strip() treat as whitespace, the
\* same set for both: U+0009 to U+000D, U+001C to U+001F, U+0020, U+0085,
\* U+00A0, U+1680, U+2000 to U+200A, U+2028, U+2029, U+202F, U+205F, U+3000
Whitespace ==
    {"\t", "\n", "", "\f", "\r", "", "", "",
     "", " ", "", " ", "U+1680", "U+2000", "U+2001", "U+2002",
     "U+2003", "U+2004", "U+2005", "U+2006", "U+2007", "U+2008", "U+2009", "U+200A",
     "U+2028", "U+2029", "U+202F", "U+205F", "U+3000"}

\* the code points beyond Latin-1 that \w matches (the alphanumerics of
\* Unicode 14.0.0, of Python 3.11), as ranges << first, last >>
WordRanges ==
    {<<256, 705>>, <<710, 721>>, <<736, 740>>, <<748, 748>>, <<750, 750>>, <<880, 884>>,
     <<886, 887>>, <<890, 893>>, <<895, 895>>, <<902, 902>>, <<904, 906>>, <<908, 908>>,
     <<910, 929>>, <<931, 1013>>, <<1015, 1153>>, <<1162, 1327>>, <<1329, 1366>>, <<1369, 1369>>,
     <<1376, 1416>>, <<1488, 1514>>, <<1519, 1522>>, <<1568, 1610>>, <<1632, 1641>>, <<1646, 1647>>,
     <<1649, 1747>>, <<1749, 1749>>, <<1765, 1766>>, <<1774, 1788>>, <<1791, 1791>>, <<1808, 1808>>,
     <<1810, 1839>>, <<1869, 1957>>, <<1969, 1969>>, <<1984, 2026>>, <<2036, 2037>>, <<2042, 2042>>,
     <<2048, 2069>>, <<2074, 2074>>, <<2084, 2084>>, <<2088, 2088>>, <<2112, 2136>>, <<2144, 2154>>,
     <<2160, 2183>>, <<2185, 2190>>, <<2208, 2249>>, <<2308, 2361>>, <<2365, 2365>>, <<2384, 2384>>,
     <<2392, 2401>>, <<2406, 2415>>, <<2417, 2432>>, <<2437, 2444>>, <<2447, 2448>>, <<2451, 2472>>,
     <<2474, 2480>>, <<2482, 2482>>, <<2486, 2489>>, <<2493, 2493>>, <<2510, 2510>>, <<2524, 2525>>,
     <<2527, 2529>>, <<2534, 2545>>, <<2548, 2553>>, <<2556, 2556>>, <<2565, 2570>>, <<2575, 2576>>,
     <<2579, 2600>>, <<2602, 2608>>, <<2610, 2611>>, <<2613, 2614>>, <<2616, 2617>>, <<2649, 2652>>,
     <<2654, 2654>>, <<2662, 2671>>, <<2674, 2676>>, <<2693, 2701>>, <<2703, 2705>>, <<2707, 2728>>,
     <<2730, 2736>>, <<2738, 2739>>, <<2741, 2745>>, <<2749, 2749>>, <<2768, 2768>>, <<2784, 2785>>,
     <<2790, 2799>>, <<2809, 2809>>, <<2821, 2828>>, <<2831, 2832>>, <<2835, 2856>>, <<2858, 2864>>,
     <<2866, 2867>>, <<2869, 2873>>, <<2877, 2877>>, <<2908, 2909>>, <<2911, 2913>>, <<2918, 2927>>,
     <<2929, 2935>>, <<2947, 2947>>, <<2949, 2954>>, <<2958, 2960>>, <<2962, 2965>>, <<2969, 2970>>,
     <<2972, 2972>>, <<2974, 2975>>, <<2979, 2980>>, <<2984, 2986>>, <<2990, 3001>>, <<3024, 3024>>,
     <<3046, 3058>>, <<3077, 3084>>, <<3086, 3088>>, <<3090, 3112>>, <<3114, 3129>>, <<3133, 3133>>,
     <<3160, 3162>>, <<3165, 3165>>, <<3168, 3169>>, <<3174, 3183>>, <<3192, 3198>>, <<3200, 3200>>,
     <<3205, 3212>>, <<3214, 3216>>, <<3218, 3240>>, <<3242, 3251>>, <<3253, 3257>>, <<3261, 3261>>,
     <<3293, 3294>>, <<3296, 3297>>, <<3302, 3311>>, <<3313, 3314>>, <<3332, 3340>>, <<3342, 3344>>,
     <<3346, 3386>>, <<3389, 3389>>, <<3406, 3406>>, <<3412, 3414>>, <<3416, 3425>>, <<3430, 3448>>,
     <<3450, 3455>>, <<3461, 3478>>, <<3482, 3505>>, <<3507, 3515>>, <<3517, 3517>>, <<3520, 3526>>,
     <<3558, 3567>>, <<3585, 3632>>, <<3634, 3635>>, <<3648, 3654>>, <<3664, 3673>>, <<3713, 3714>>,
     <<3716, 3716>>, <<3718, 3722>>, <<3724, 3747>>, <<3749, 3749>>, <<3751, 3760>>, <<3762, 3763>>,
     <<3773, 3773>>, <<3776, 3780>>, <<3782, 3782>>, <<3792, 3801>>, <<3804, 3807>>, <<3840, 3840>>,
     <<3872, 3891>>, <<3904, 3911>>, <<3913, 3948>>, <<3976, 3980>>, <<4096, 4138>>, <<4159, 4169>>,
     <<4176, 4181>>, <<4186, 4189>>, <<4193, 4193>>, <<4197, 4198>>, <<4206, 4208>>, <<4213, 4225>>,
     <<4238, 4238>>, <<4240, 4249>>, <<4256, 4293>>, <<4295, 4295>>, <<4301, 4301>>, <<4304, 4346>>,
     <<4348, 4680>>, <<4682, 4685>>, <<4688, 4694>>, <<4696, 4696>>, <<4698, 4701>>, <<4704, 4744>>,
     <<4746, 4749>>, <<4752, 4784>>, <<4786, 4789>>, <<4792, 4798>>, <<4800, 4800>>, <<4802, 4805>>,
     <<4808, 4822>>, <<4824, 4880>>, <<4882, 4885>>, <<4888, 4954>>, <<4969, 4988>>, <<4992, 5007>>,
     <<5024, 5109>>, <<5112, 5117>>, <<5121, 5740>>, <<5743, 5759>>, <<5761, 5786>>, <<5792, 5866>>,
     <<5870, 5880>>, <<5888, 5905>>, <<5919, 5937>>, <<5952, 5969>>, <<5984, 5996>>, <<5998, 6000>>,
     <<6016, 6067>>, <<6103, 6103>>, <<6108, 6108>>, <<6112, 6121>>, <<6128, 6137>>, <<6160, 6169>>,
     <<6176, 6264>>, <<6272, 6276>>, <<6279, 6312>>, <<6314, 6314>>, <<6320, 6389>>, <<6400, 6430>>,
     <<6470, 6509>>, <<6512, 6516>>, <<6528, 6571>>, <<6576, 6601>>, <<6608, 6618>>, <<6656, 6678>>,
     <<6688, 6740>>, <<6784, 6793>>, <<6800, 6809>>, <<6823, 6823>>, <<6917, 6963>>, <<6981, 6988>>,
     <<6992, 7001>>, <<7043, 7072>>, <<7086, 7141>>, <<7168, 7203>>, <<7232, 7241>>, <<7245, 7293>>,
     <<7296, 7304>>, <<7312, 7354>>, <<7357, 7359>>, <<7401, 7404>>, <<7406, 7411>>, <<7413, 7414>>,
     <<7418, 7418>>, <<7424, 7615>>, <<7680, 7957>>, <<7960, 7965>>, <<7968, 8005>>, <<8008, 8013>>,
     <<8016, 8023>>, <<8025, 8025>>, <<8027, 8027>>, <<8029, 8029>>, <<8031, 8061>>, <<8064, 8116>>,
     <<8118, 8124>>, <<8126, 8126>>, <<8130, 8132>>, <<8134, 8140>>, <<8144, 8147>>, <<8150, 8155>>,
     <<8160, 8172>>, <<8178, 8180>>, <<8182, 8188>>, <<8304, 8305>>, <<8308, 8313>>, <<8319, 8329>>,
     <<8336, 8348>>, <<8450, 8450>>, <<8455, 8455>>, <<8458, 8467>>, <<8469, 8469>>, <<8473, 8477>>,
     <<8484, 8484>>, <<8486, 8486>>, <<8488, 8488>>, <<8490, 8493>>, <<8495, 8505>>, <<8508, 8511>>,
     <<8517, 8521>>, <<8526, 8526>>, <<8528, 8585>>, <<9312, 9371>>, <<9450, 9471>>, <<10102, 10131>>,
     <<11264, 11492>>, <<11499, 11502>>, <<11506, 11507>>, <<11517, 11517>>, <<11520, 11557>>, <<11559, 11559>>,
     <<11565, 11565>>, <<11568, 11623>>, <<11631, 11631>>, <<11648, 11670>>, <<11680, 11686>>, <<11688, 11694>>,
     <<11696, 11702>>, <<11704, 11710>>, <<11712, 11718>>, <<11720, 11726>>, <<11728, 11734>>, <<11736, 11742>>,
     <<11823, 11823>>, <<12293, 12295>>, <<12321, 12329>>, <<12337, 12341>>, <<12344, 12348>>, <<12353, 12438>>,
     <<12445, 12447>>, <<12449, 12538>>, <<12540, 12543>>, <<12549, 12591>>, <<12593, 12686>>, <<12690, 12693>>,
     <<12704, 12735>>, <<12784, 12799>>, <<12832, 12841>>, <<12872, 12879>>, <<12881, 12895>>, <<12928, 12937>>,
     <<12977, 12991>>, <<13312, 19903>>, <<19968, 42124>>, <<42192, 42237>>, <<42240, 42508>>, <<42512, 42539>>,
     <<42560, 42606>>, <<42623, 42653>>, <<42656, 42735>>, <<42775, 42783>>, <<42786, 42888>>, <<42891, 42954>>,
     <<42960, 42961>>, <<42963, 42963>>, <<42965, 42969>>, <<42994, 43009>>, <<43011, 43013>>, <<43015, 43018>>,
     <<43020, 43042>>, <<43056, 43061>>, <<43072, 43123>>, <<43138, 43187>>, <<43216, 43225>>, <<43250, 43255>>,
     <<43259, 43259>>, <<43261, 43262>>, <<43264, 43301>>, <<43312, 43334>>, <<43360, 43388>>, <<43396, 43442>>,
     <<43471, 43481>>, <<43488, 43492>>, <<43494, 43518>>, <<43520, 43560>>, <<43584, 43586>>, <<43588, 43595>>,
     <<43600, 43609>>, <<43616, 43638>>, <<43642, 43642>>, <<43646, 43695>>, <<43697, 43697>>, <<43701, 43702>>,
     <<43705, 43709>>, <<43712, 43712>>, <<43714, 43714>>, <<43739, 43741>>, <<43744, 43754>>, <<43762, 43764>>,
     <<43777, 43782>>, <<43785, 43790>>, <<43793, 43798>>, <<43808, 43814>>, <<43816, 43822>>, <<43824, 43866>>,
     <<43868, 43881>>, <<43888, 44002>>, <<44016, 44025>>, <<44032, 55203>>, <<55216, 55238>>, <<55243, 55291>>,
     <<63744, 64109>>, <<64112, 64217>>, <<64256, 64262>>, <<64275, 64279>>, <<64285, 64285>>, <<64287, 64296>>,
     <<64298, 64310>>, <<64312, 64316>>, <<64318, 64318>>, <<64320, 64321>>, <<64323, 64324>>, <<64326, 64433>>,
     <<64467, 64829>>, <<64848, 64911>>, <<64914, 64967>>, <<65008, 65019>>, <<65136, 65140>>, <<65142, 65276>>,
     <<65296, 65305>>, <<65313, 65338>>, <<65345, 65370>>, <<65382, 65470>>, <<65474, 65479>>, <<65482, 65487>>,
     <<65490, 65495>>, <<65498, 65500>>, <<65536, 65547>>, <<65549, 65574>>, <<65576, 65594>>, <<65596, 65597>>,
     <<65599, 65613>>, <<65616, 65629>>, <<65664, 65786>>, <<65799, 65843>>, <<65856, 65912>>, <<65930, 65931>>,
     <<66176, 66204>>, <<66208, 66256>>, <<66273, 66299>>, <<66304, 66339>>, <<66349, 66378>>, <<66384, 66421>>,
     <<66432, 66461>>, <<66464, 66499>>, <<66504, 66511>>, <<66513, 66517>>, <<66560, 66717>>, <<66720, 66729>>,
     <<66736, 66771>>, <<66776, 66811>>, <<66816, 66855>>, <<66864, 66915>>, <<66928, 66938>>, <<66940, 66954>>,
     <<66956, 66962>>, <<66964, 66965>>, <<66967, 66977>>, <<66979, 66993>>, <<66995, 67001>>, <<67003, 67004>>,
     <<67072, 67382>>, <<67392, 67413>>, <<67424, 67431>>, <<67456, 67461>>, <<67463, 67504>>, <<67506, 67514>>,
     <<67584, 67589>>, <<67592, 67592>>, <<67594, 67637>>, <<67639, 67640>>, <<67644, 67644>>, <<67647, 67669>>,
     <<67672, 67702>>, <<67705, 67742>>, <<67751, 67759>>, <<67808, 67826>>, <<67828, 67829>>, <<67835, 67867>>,
     <<67872, 67897>>, <<67968, 68023>>, <<68028, 68047>>, <<68050, 68096>>, <<68112, 68115>>, <<68117, 68119>>,
     <<68121, 68149>>, <<68160, 68168>>, <<68192, 68222>>, <<68224, 68255>>, <<68288, 68295>>, <<68297, 68324>>,
     <<68331, 68335>>, <<68352, 68405>>, <<68416, 68437>>, <<68440, 68466>>, <<68472, 68497>>, <<68521, 68527>>,
     <<68608, 68680>>, <<68736, 68786>>, <<68800, 68850>>, <<68858, 68899>>, <<68912, 68921>>, <<69216, 69246>>,
     <<69248, 69289>>, <<69296, 69297>>, <<69376, 69415>>, <<69424, 69445>>, <<69457, 69460>>, <<69488, 69505>>,
     <<69552, 69579>>, <<69600, 69622>>, <<69635, 69687>>, <<69714, 69743>>, <<69745, 69746>>, <<69749, 69749>>,
     <<69763, 69807>>, <<69840, 69864>>, <<69872, 69881>>, <<69891, 69926>>, <<69942, 69951>>, <<69956, 69956>>,
     <<69959, 69959>>, <<69968, 70002>>, <<70006, 70006>>, <<70019, 70066>>, <<70081, 70084>>, <<70096, 70106>>,
     <<70108, 70108>>, <<70113, 70132>>, <<70144, 70161>>, <<70163, 70187>>, <<70272, 70278>>, <<70280, 70280>>,
     <<70282, 70285>>, <<70287, 70301>>, <<70303, 70312>>, <<70320, 70366>>, <<70384, 70393>>, <<70405, 70412>>,
     <<70415, 70416>>, <<70419, 70440>>, <<70442, 70448>>, <<70450, 70451>>, <<70453, 70457>>, <<70461, 70461>>,
     <<70480, 70480>>, <<70493, 70497>>, <<70656, 70708>>, <<70727, 70730>>, <<70736, 70745>>, <<70751, 70753>>,
     <<70784, 70831>>, <<70852, 70853>>, <<70855, 70855>>, <<70864, 70873>>, <<71040, 71086>>, <<71128, 71131>>,
     <<71168, 71215>>, <<71236, 71236>>, <<71248, 71257>>, <<71296, 71338>>, <<71352, 71352>>, <<71360, 71369>>,
     <<71424, 71450>>, <<71472, 71483>>, <<71488, 71494>>, <<71680, 71723>>, <<71840, 71922>>, <<71935, 71942>>,
     <<71945, 71945>>, <<71948, 71955>>, <<71957, 71958>>, <<71960, 71983>>, <<71999, 71999>>, <<72001, 72001>>,
     <<72016, 72025>>, <<72096, 72103>>, <<72106, 72144>>, <<72161, 72161>>, <<72163, 72163>>, <<72192, 72192>>,
     <<72203, 72242>>, <<72250, 72250>>, <<72272, 72272>>, <<72284, 72329>>, <<72349, 72349>>, <<72368, 72440>>,
     <<72704, 72712>>, <<72714, 72750>>, <<72768, 72768>>, <<72784, 72812>>, <<72818, 72847>>, <<72960, 72966>>,
     <<72968, 72969>>, <<72971, 73008>>, <<73030, 73030>>, <<73040, 73049>>, <<73056, 73061>>, <<73063, 73064>>,
     <<73066, 73097>>, <<73112, 73112>>, <<73120, 73129>>, <<73440, 73458>>, <<73648, 73648>>, <<73664, 73684>>,
     <<73728, 74649>>, <<74752, 74862>>, <<74880, 75075>>, <<77712, 77808>>, <<77824, 78894>>, <<82944, 83526>>,
     <<92160, 92728>>, <<92736, 92766>>, <<92768, 92777>>, <<92784, 92862>>, <<92864, 92873>>, <<92880, 92909>>,
     <<92928, 92975>>, <<92992, 92995>>, <<93008, 93017>>, <<93019, 93025>>, <<93027, 93047>>, <<93053, 93071>>,
     <<93760, 93846>>, <<93952, 94026>>, <<94032, 94032>>, <<94099, 94111>>, <<94176, 94177>>, <<94179, 94179>>,
     <<94208, 100343>>, <<100352, 101589>>, <<101632, 101640>>, <<110576, 110579>>, <<110581, 110587>>, <<110589, 110590>>,
     <<110592, 110882>>, <<110928, 110930>>, <<110948, 110951>>, <<110960, 111355>>, <<113664, 113770>>, <<113776, 113788>>,
     <<113792, 113800>>, <<113808, 113817>>, <<119520, 119539>>, <<119648, 119672>>, <<119808, 119892>>, <<119894, 119964>>,
     <<119966, 119967>>, <<119970, 119970>>, <<119973, 119974>>, <<119977, 119980>>, <<119982, 119993>>, <<119995, 119995>>,
     <<119997, 120003>>, <<120005, 120069>>, <<120071, 120074>>, <<120077, 120084>>, <<120086, 120092>>, <<120094, 120121>>,
     <<120123, 120126>>, <<120128, 120132>>, <<120134, 120134>>, <<120138, 120144>>, <<120146, 120485>>, <<120488, 120512>>,
     <<120514, 120538>>, <<120540, 120570>>, <<120572, 120596>>, <<120598, 120628>>, <<120630, 120654>>, <<120656, 120686>>,
     <<120688, 120712>>, <<120714, 120744>>, <<120746, 120770>>, <<120772, 120779>>, <<120782, 120831>>, <<122624, 122654>>,
     <<123136, 123180>>, <<123191, 123197>>, <<123200, 123209>>, <<123214, 123214>>, <<123536, 123565>>, <<123584, 123627>>,
     <<123632, 123641>>, <<124896, 124902>>, <<124904, 124907>>, <<124909, 124910>>, <<124912, 124926>>, <<124928, 125124>>,
     <<125127, 125135>>, <<125184, 125251>>, <<125259, 125259>>, <<125264, 125273>>, <<126065, 126123>>, <<126125, 126127>>,
     <<126129, 126132>>, <<126209, 126253>>, <<126255, 126269>>, <<126464, 126467>>, <<126469, 126495>>, <<126497, 126498>>,
     <<126500, 126500>>, <<126503, 126503>>, <<126505, 126514>>, <<126516, 126519>>, <<126521, 126521>>, <<126523, 126523>>,
     <<126530, 126530>>, <<126535, 126535>>, <<126537, 126537>>, <<126539, 126539>>, <<126541, 126543>>, <<126545, 126546>>,
     <<126548, 126548>>, <<126551, 126551>>, <<126553, 126553>>, <<126555, 126555>>, <<126557, 126557>>, <<126559, 126559>>,
     <<126561, 126562>>, <<126564, 126564>>, <<126567, 126570>>, <<126572, 126578>>, <<126580, 126583>>, <<126585, 126588>>,
     <<126590, 126590>>, <<126592, 126601>>, <<126603, 126619>>, <<126625, 126627>>, <<126629, 126633>>, <<126635, 126651>>,
     <<127232, 127244>>, <<130032, 130041>>, <<131072, 173791>>, <<173824, 177976>>, <<177984, 178205>>, <<178208, 183969>>,
     <<183984, 191456>>, <<194560, 195101>>, <<196608, 201546>>}

\* the characters the regex class \w matches in a str pattern: the ASCII
\* letters and digits, the underscore, the other alphanumerics of Latin-1 and
\* those beyond
WordChars ==
    {LowerLetters[i] : i \in DOMAIN LowerLetters}
        \cup {UpperLetters[i] : i \in DOMAIN UpperLetters}
        \cup Digits \cup {"_"}
        \cup {UpperLatin[i] : i \in DOMAIN UpperLatin}
        \cup {LowerLatin[i] : i \in DOMAIN LowerLatin}
        \cup UncasedLatin
        \cup {c \in STRING : ByCodePoint(c) /\ InRanges(CodePoint(c), WordRanges)}

\* the punctuation preprocess_text keeps: - . ? !
KeptPunctuation == {"-", ".", "?", "!"}

\* the Latin-1 characters that str.lower() changes
LatinCapitals ==
    {UpperLetters[i] : i \in DOMAIN UpperLetters}
        \cup {UpperLatin[i] : i \in DOMAIN UpperLatin}

\* the characters beyond Latin-1 that str.lower() turns into one of Latin-1:
\* << c, c.lower() >>
LowerToLatin ==
    {<<"U+0178", "ÿ">>, <<"U+1E9E", "ß">>, <<"U+212A", "k">>, <<"U+212B", "å">>}

\* the code points beyond Latin-1 that str.lower() turns into another code
\* point beyond Latin-1: << first, last, step, delta >> stands for the code
\* points first, first + step, ... up to last, each of which becomes the
\* code point delta further
LowerRuns ==
    {<<256, 302, 2, 1>>, <<306, 310, 2, 1>>, <<313, 327, 2, 1>>, <<330, 374, 2, 1>>,
     <<377, 381, 2, 1>>, <<385, 385, 1, 210>>, <<386, 388, 2, 1>>, <<390, 390, 1, 206>>,
     <<391, 391, 1, 1>>, <<393, 394, 1, 205>>, <<395, 395, 1, 1>>, <<398, 398, 1, 79>>,
     <<399, 399, 1, 202>>, <<400, 400, 1, 203>>, <<401, 401, 1, 1>>, <<403, 403, 1, 205>>,
     <<404, 404, 1, 207>>, <<406, 406, 1, 211>>, <<407, 407, 1, 209>>, <<408, 408, 1, 1>>,
     <<412, 412, 1, 211>>, <<413, 413, 1, 213>>, <<415, 415, 1, 214>>, <<416, 420, 2, 1>>,
     <<422, 422, 1, 218>>, <<423, 423, 1, 1>>, <<425, 425, 1, 218>>, <<428, 428, 1, 1>>,
     <<430, 430, 1, 218>>, <<431, 431, 1, 1>>, <<433, 434, 1, 217>>, <<435, 437, 2, 1>>,
     <<439, 439, 1, 219>>, <<440, 440, 1, 1>>, <<444, 444, 1, 1>>, <<452, 452, 1, 2>>,
     <<453, 453, 1, 1>>, <<455, 455, 1, 2>>, <<456, 456, 1, 1>>, <<458, 458, 1, 2>>,
     <<459, 475, 2, 1>>, <<478, 494, 2, 1>>, <<497, 497, 1, 2>>, <<498, 500, 2, 1>>,
     <<502, 502, 1, -97>>, <<503, 503, 1, -56>>, <<504, 542, 2, 1>>, <<544, 544, 1, -130>>,
     <<546, 562, 2, 1>>, <<570, 570, 1, 10795>>, <<571, 571, 1, 1>>, <<573, 573, 1, -163>>,
     <<574, 574, 1, 10792>>, <<577, 577, 1, 1>>, <<579, 579, 1, -195>>, <<580, 580, 1, 69>>,
     <<581, 581, 1, 71>>, <<582, 590, 2, 1>>, <<880, 882, 2, 1>>, <<886, 886, 1, 1>>,
     <<895, 895, 1, 116>>, <<902, 902, 1, 38>>, <<904, 906, 1, 37>>, <<908, 908, 1, 64>>,
     <<910, 911, 1, 63>>, <<913, 929, 1, 32>>, <<931, 939, 1, 32>>, <<975, 975, 1, 8>>,
     <<984, 1006, 2, 1>>, <<1012, 1012, 1, -60>>, <<1015, 1015, 1, 1>>, <<1017, 1017, 1, -7>>,
     <<1018, 1018, 1, 1>>, <<1021, 1023, 1, -130>>, <<1024, 1039, 1, 80>>, <<1040, 1071, 1, 32>>,
     <<1120, 1152, 2, 1>>, <<1162, 1214, 2, 1>>, <<1216, 1216, 1, 15>>, <<1217, 1229, 2, 1>>,
     <<1232, 1326, 2, 1>>, <<1329, 1366, 1, 48>>, <<4256, 4293, 1, 7264>>, <<4295, 4295, 1, 7264>>,
     <<4301, 4301, 1, 7264>>, <<5024, 5103, 1, 38864>>, <<5104, 5109, 1, 8>>, <<7312, 7354, 1, -3008>>,
     <<7357, 7359, 1, -3008>>, <<7680, 7828, 2, 1>>, <<7840, 7934, 2, 1>>, <<7944, 7951, 1, -8>>,
     <<7960, 7965, 1, -8>>, <<7976, 7983, 1, -8>>, <<7992, 7999, 1, -8>>, <<8008, 8013, 1, -8>>,
     <<8025, 8031, 2, -8>>, <<8040, 8047, 1, -8>>, <<8072, 8079, 1, -8>>, <<8088, 8095, 1, -8>>,
     <<8104, 8111, 1, -8>>, <<8120, 8121, 1, -8>>, <<8122, 8123, 1, -74>>, <<8124, 8124, 1, -9>>,
     <<8136, 8139, 1, -86>>, <<8140, 8140, 1, -9>>, <<8152, 8153, 1, -8>>, <<8154, 8155, 1, -100>>,
     <<8168, 8169, 1, -8>>, <<8170, 8171, 1, -112>>, <<8172, 8172, 1, -7>>, <<8184, 8185, 1, -128>>,
     <<8186, 8187, 1, -126>>, <<8188, 8188, 1, -9>>, <<8486, 8486, 1, -7517>>, <<8498, 8498, 1, 28>>,
     <<8544, 8559, 1, 16>>, <<8579, 8579, 1, 1>>, <<9398, 9423, 1, 26>>, <<11264, 11311, 1, 48>>,
     <<11360, 11360, 1, 1>>, <<11362, 11362, 1, -10743>>, <<11363, 11363, 1, -3814>>, <<11364, 11364, 1, -10727>>,
     <<11367, 11371, 2, 1>>, <<11373, 11373, 1, -10780>>, <<11374, 11374, 1, -10749>>, <<11375, 11375, 1, -10783>>,
     <<11376, 11376, 1, -10782>>, <<11378, 11378, 1, 1>>, <<11381, 11381, 1, 1>>, <<11390, 11391, 1, -10815>>,
     <<11392, 11490, 2, 1>>, <<11499, 11501, 2, 1>>, <<11506, 11506, 1, 1>>, <<42560, 42604, 2, 1>>,
     <<42624, 42650, 2, 1>>, <<42786, 42798, 2, 1>>, <<42802, 42862, 2, 1>>, <<42873, 42875, 2, 1>>,
     <<42877, 42877, 1, -35332>>, <<42878, 42886, 2, 1>>, <<42891, 42891, 1, 1>>, <<42893, 42893, 1, -42280>>,
     <<42896, 42898, 2, 1>>, <<42902, 42920, 2, 1>>, <<42922, 42922, 1, -42308>>, <<42923, 42923, 1, -42319>>,
     <<42924, 42924, 1, -42315>>, <<42925, 42925, 1, -42305>>, <<42926, 42926, 1, -42308>>, <<42928, 42928, 1, -42258>>,
     <<42929, 42929, 1, -42282>>, <<42930, 42930, 1, -42261>>, <<42931, 42931, 1, 928>>, <<42932, 42946, 2, 1>>,
     <<42948, 42948, 1, -48>>, <<42949, 42949, 1, -42307>>, <<42950, 42950, 1, -35384>>, <<42951, 42953, 2, 1>>,
     <<42960, 42960, 1, 1>>, <<42966, 42968, 2, 1>>, <<42997, 42997, 1, 1>>, <<65313, 65338, 1, 32>>,
     <<66560, 66599, 1, 40>>, <<66736, 66771, 1, 40>>, <<66928, 66964, 2, 39>>, <<66929, 66937, 2, 39>>,
     <<66941, 66953, 2, 39>>, <<66957, 66961, 2, 39>>, <<66965, 66965, 1, 39>>, <<68736, 68786, 1, 64>>,
     <<71840, 71871, 1, 32>>, <<93760, 93791, 1, 32>>, <<125184, 125217, 1, 34>>}

\* the characters that str.lower() changes
Capitals ==
    LatinCapitals
        \cup {CapitalIWithDot}
        \cup {c \in STRING :
                /\ ByCodePoint(c)
                /\ \/ \E p \in LowerToLatin : p[1] = c
                   \/ LET n == CodePoint(c)
                      IN  \E r \in LowerRuns :
                             r[1] <= n /\ n <= r[2] /\ (n - r[1]) % r[3] = 0}

\* c.lower(), a str of one character or of two
LowerChar(c) ==
    IF c \notin Capitals THEN << c >>
    ELSE IF c = CapitalIWithDot THEN << "i", "U+0307" >>
    ELSE IF \E i \in DOMAIN UpperLetters : UpperLetters[i] = c
    THEN << LowerLetters[CHOOSE i \in DOMAIN UpperLetters : UpperLetters[i] = c] >>
    ELSE IF \E i \in DOMAIN UpperLatin : UpperLatin[i] = c
    THEN << LowerLatin[CHOOSE i \in DOMAIN UpperLatin : UpperLatin[i] = c] >>
    ELSE IF \E p \in LowerToLatin : p[1] = c
    THEN << (CHOOSE p \in LowerToLatin : p[1] = c)[2] >>
    ELSE LET \* the code point n moved by the delta of the run that holds it
             Moved(n) ==
                 CodePointName(n + (CHOOSE r \in LowerRuns :
                                       r[1] <= n /\ n <= r[2] /\ (n - r[1]) % r[3] = 0)[4])
         IN  << Moved(CodePoint(c)) >>

\* the code points of the characters written by code point that are
\* case-ignorable
CaseIgnorableRanges ==
    {<<96, 96>>, <<688, 879>>, <<884, 885>>, <<890, 890>>, <<900, 901>>, <<903, 903>>,
     <<1155, 1161>>, <<1369, 1369>>, <<1375, 1375>>, <<1425, 1469>>, <<1471, 1471>>, <<1473, 1474>>,
     <<1476, 1477>>, <<1479, 1479>>, <<1524, 1524>>, <<1536, 1541>>, <<1552, 1562>>, <<1564, 1564>>,
     <<1600, 1600>>, <<1611, 1631>>, <<1648, 1648>>, <<1750, 1757>>, <<1759, 1768>>, <<1770, 1773>>,
     <<1807, 1807>>, <<1809, 1809>>, <<1840, 1866>>, <<1958, 1968>>, <<2027, 2037>>, <<2042, 2042>>,
     <<2045, 2045>>, <<2070, 2093>>, <<2137, 2139>>, <<2184, 2184>>, <<2192, 2193>>, <<2200, 2207>>,
     <<2249, 2306>>, <<2362, 2362>>, <<2364, 2364>>, <<2369, 2376>>, <<2381, 2381>>, <<2385, 2391>>,
     <<2402, 2403>>, <<2417, 2417>>, <<2433, 2433>>, <<2492, 2492>>, <<2497, 2500>>, <<2509, 2509>>,
     <<2530, 2531>>, <<2558, 2558>>, <<2561, 2562>>, <<2620, 2620>>, <<2625, 2626>>, <<2631, 2632>>,
     <<2635, 2637>>, <<2641, 2641>>, <<2672, 2673>>, <<2677, 2677>>, <<2689, 2690>>, <<2748, 2748>>,
     <<2753, 2757>>, <<2759, 2760>>, <<2765, 2765>>, <<2786, 2787>>, <<2810, 2815>>, <<2817, 2817>>,
     <<2876, 2876>>, <<2879, 2879>>, <<2881, 2884>>, <<2893, 2893>>, <<2901, 2902>>, <<2914, 2915>>,
     <<2946, 2946>>, <<3008, 3008>>, <<3021, 3021>>, <<3072, 3072>>, <<3076, 3076>>, <<3132, 3132>>,
     <<3134, 3136>>, <<3142, 3144>>, <<3146, 3149>>, <<3157, 3158>>, <<3170, 3171>>, <<3201, 3201>>,
     <<3260, 3260>>, <<3263, 3263>>, <<3270, 3270>>, <<3276, 3277>>, <<3298, 3299>>, <<3328, 3329>>,
     <<3387, 3388>>, <<3393, 3396>>, <<3405, 3405>>, <<3426, 3427>>, <<3457, 3457>>, <<3530, 3530>>,
     <<3538, 3540>>, <<3542, 3542>>, <<3633, 3633>>, <<3636, 3642>>, <<3654, 3662>>, <<3761, 3761>>,
     <<3764, 3772>>, <<3782, 3782>>, <<3784, 3789>>, <<3864, 3865>>, <<3893, 3893>>, <<3895, 3895>>,
     <<3897, 3897>>, <<3953, 3966>>, <<3968, 3972>>, <<3974, 3975>>, <<3981, 3991>>, <<3993, 4028>>,
     <<4038, 4038>>, <<4141, 4144>>, <<4146, 4151>>, <<4153, 4154>>, <<4157, 4158>>, <<4184, 4185>>,
     <<4190, 4192>>, <<4209, 4212>>, <<4226, 4226>>, <<4229, 4230>>, <<4237, 4237>>, <<4253, 4253>>,
     <<4348, 4348>>, <<4957, 4959>>, <<5906, 5908>>, <<5938, 5939>>, <<5970, 5971>>, <<6002, 6003>>,
     <<6068, 6069>>, <<6071, 6077>>, <<6086, 6086>>, <<6089, 6099>>, <<6103, 6103>>, <<6109, 6109>>,
     <<6155, 6159>>, <<6211, 6211>>, <<6277, 6278>>, <<6313, 6313>>, <<6432, 6434>>, <<6439, 6440>>,
     <<6450, 6450>>, <<6457, 6459>>, <<6679, 6680>>, <<6683, 6683>>, <<6742, 6742>>, <<6744, 6750>>,
     <<6752, 6752>>, <<6754, 6754>>, <<6757, 6764>>, <<6771, 6780>>, <<6783, 6783>>, <<6823, 6823>>,
     <<6832, 6862>>, <<6912, 6915>>, <<6964, 6964>>, <<6966, 6970>>, <<6972, 6972>>, <<6978, 6978>>,
     <<7019, 7027>>, <<7040, 7041>>, <<7074, 7077>>, <<7080, 7081>>, <<7083, 7085>>, <<7142, 7142>>,
     <<7144, 7145>>, <<7149, 7149>>, <<7151, 7153>>, <<7212, 7219>>, <<7222, 7223>>, <<7288, 7293>>,
     <<7376, 7378>>, <<7380, 7392>>, <<7394, 7400>>, <<7405, 7405>>, <<7412, 7412>>, <<7416, 7417>>,
     <<7468, 7530>>, <<7544, 7544>>, <<7579, 7679>>, <<8125, 8125>>, <<8127, 8129>>, <<8141, 8143>>,
     <<8157, 8159>>, <<8173, 8175>>, <<8189, 8190>>, <<8203, 8207>>, <<8216, 8217>>, <<8228, 8228>>,
     <<8231, 8231>>, <<8234, 8238>>, <<8288, 8292>>, <<8294, 8303>>, <<8305, 8305>>, <<8319, 8319>>,
     <<8336, 8348>>, <<8400, 8432>>, <<11388, 11389>>, <<11503, 11505>>, <<11631, 11631>>, <<11647, 11647>>,
     <<11744, 11775>>, <<11823, 11823>>, <<12293, 12293>>, <<12330, 12333>>, <<12337, 12341>>, <<12347, 12347>>,
     <<12441, 12446>>, <<12540, 12542>>, <<40981, 40981>>, <<42232, 42237>>, <<42508, 42508>>, <<42607, 42610>>,
     <<42612, 42621>>, <<42623, 42623>>, <<42652, 42655>>, <<42736, 42737>>, <<42752, 42785>>, <<42864, 42864>>,
     <<42888, 42890>>, <<42994, 42996>>, <<43000, 43001>>, <<43010, 43010>>, <<43014, 43014>>, <<43019, 43019>>,
     <<43045, 43046>>, <<43052, 43052>>, <<43204, 43205>>, <<43232, 43249>>, <<43263, 43263>>, <<43302, 43309>>,
     <<43335, 43345>>, <<43392, 43394>>, <<43443, 43443>>, <<43446, 43449>>, <<43452, 43453>>, <<43471, 43471>>,
     <<43493, 43494>>, <<43561, 43566>>, <<43569, 43570>>, <<43573, 43574>>, <<43587, 43587>>, <<43596, 43596>>,
     <<43632, 43632>>, <<43644, 43644>>, <<43696, 43696>>, <<43698, 43700>>, <<43703, 43704>>, <<43710, 43711>>,
     <<43713, 43713>>, <<43741, 43741>>, <<43756, 43757>>, <<43763, 43764>>, <<43766, 43766>>, <<43867, 43871>>,
     <<43881, 43883>>, <<44005, 44005>>, <<44008, 44008>>, <<44013, 44013>>, <<64286, 64286>>, <<64434, 64450>>,
     <<65024, 65039>>, <<65043, 65043>>, <<65056, 65071>>, <<65106, 65106>>, <<65109, 65109>>, <<65279, 65279>>,
     <<65287, 65287>>, <<65294, 65294>>, <<65306, 65306>>, <<65342, 65342>>, <<65344, 65344>>, <<65392, 65392>>,
     <<65438, 65439>>, <<65507, 65507>>, <<65529, 65531>>, <<66045, 66045>>, <<66272, 66272>>, <<66422, 66426>>,
     <<67456, 67461>>, <<67463, 67504>>, <<67506, 67514>>, <<68097, 68099>>, <<68101, 68102>>, <<68108, 68111>>,
     <<68152, 68154>>, <<68159, 68159>>, <<68325, 68326>>, <<68900, 68903>>, <<69291, 69292>>, <<69446, 69456>>,
     <<69506, 69509>>, <<69633, 69633>>, <<69688, 69702>>, <<69744, 69744>>, <<69747, 69748>>, <<69759, 69761>>,
     <<69811, 69814>>, <<69817, 69818>>, <<69821, 69821>>, <<69826, 69826>>, <<69837, 69837>>, <<69888, 69890>>,
     <<69927, 69931>>, <<69933, 69940>>, <<70003, 70003>>, <<70016, 70017>>, <<70070, 70078>>, <<70089, 70092>>,
     <<70095, 70095>>, <<70191, 70193>>, <<70196, 70196>>, <<70198, 70199>>, <<70206, 70206>>, <<70367, 70367>>,
     <<70371, 70378>>, <<70400, 70401>>, <<70459, 70460>>, <<70464, 70464>>, <<70502, 70508>>, <<70512, 70516>>,
     <<70712, 70719>>, <<70722, 70724>>, <<70726, 70726>>, <<70750, 70750>>, <<70835, 70840>>, <<70842, 70842>>,
     <<70847, 70848>>, <<70850, 70851>>, <<71090, 71093>>, <<71100, 71101>>, <<71103, 71104>>, <<71132, 71133>>,
     <<71219, 71226>>, <<71229, 71229>>, <<71231, 71232>>, <<71339, 71339>>, <<71341, 71341>>, <<71344, 71349>>,
     <<71351, 71351>>, <<71453, 71455>>, <<71458, 71461>>, <<71463, 71467>>, <<71727, 71735>>, <<71737, 71738>>,
     <<71995, 71996>>, <<71998, 71998>>, <<72003, 72003>>, <<72148, 72151>>, <<72154, 72155>>, <<72160, 72160>>,
     <<72193, 72202>>, <<72243, 72248>>, <<72251, 72254>>, <<72263, 72263>>, <<72273, 72278>>, <<72281, 72283>>,
     <<72330, 72342>>, <<72344, 72345>>, <<72752, 72758>>, <<72760, 72765>>, <<72767, 72767>>, <<72850, 72871>>,
     <<72874, 72880>>, <<72882, 72883>>, <<72885, 72886>>, <<73009, 73014>>, <<73018, 73018>>, <<73020, 73021>>,
     <<73023, 73029>>, <<73031, 73031>>, <<73104, 73105>>, <<73109, 73109>>, <<73111, 73111>>, <<73459, 73460>>,
     <<78896, 78904>>, <<92912, 92916>>, <<92976, 92982>>, <<92992, 92995>>, <<94031, 94031>>, <<94095, 94111>>,
     <<94176, 94177>>, <<94179, 94180>>, <<110576, 110579>>, <<110581, 110587>>, <<110589, 110590>>, <<113821, 113822>>,
     <<113824, 113827>>, <<118528, 118573>>, <<118576, 118598>>, <<119143, 119145>>, <<119155, 119170>>, <<119173, 119179>>,
     <<119210, 119213>>, <<119362, 119364>>, <<121344, 121398>>, <<121403, 121452>>, <<121461, 121461>>, <<121476, 121476>>,
     <<121499, 121503>>, <<121505, 121519>>, <<122880, 122886>>, <<122888, 122904>>, <<122907, 122913>>, <<122915, 122916>>,
     <<122918, 122922>>, <<123184, 123197>>, <<123566, 123566>>, <<123628, 123631>>, <<125136, 125142>>, <<125252, 125259>>,
     <<127995, 127999>>, <<917505, 917505>>, <<917536, 917631>>, <<917760, 917999>>}

\* c is case-ignorable: str.lower() skips it when it looks for the letter
\* before and the letter after a capital sigma.  Of the characters written
\* as themselves these are ' . : ^ and U+00A8, U+00AD, U+00AF, U+00B4,
\* U+00B7, U+00B8.
CaseIgnorable(c) ==
    IF ByCodePoint(c) THEN InRanges(CodePoint(c), CaseIgnorableRanges)
    ELSE c \in {"'", ".", ":", "^", "¨", "­", "¯", "´", "·", "¸"}

\* the code points beyond Latin-1 that are cased, of those that are not
\* case-ignorable (of no other does str.lower() ask)
CasedRanges ==
    {<<256, 442>>, <<444, 447>>, <<452, 659>>, <<661, 687>>, <<880, 883>>, <<886, 887>>,
     <<891, 893>>, <<895, 895>>, <<902, 902>>, <<904, 906>>, <<908, 908>>, <<910, 929>>,
     <<931, 1013>>, <<1015, 1153>>, <<1162, 1327>>, <<1329, 1366>>, <<1376, 1416>>, <<4256, 4293>>,
     <<4295, 4295>>, <<4301, 4301>>, <<4304, 4346>>, <<4349, 4351>>, <<5024, 5109>>, <<5112, 5117>>,
     <<7296, 7304>>, <<7312, 7354>>, <<7357, 7359>>, <<7424, 7467>>, <<7531, 7543>>, <<7545, 7578>>,
     <<7680, 7957>>, <<7960, 7965>>, <<7968, 8005>>, <<8008, 8013>>, <<8016, 8023>>, <<8025, 8025>>,
     <<8027, 8027>>, <<8029, 8029>>, <<8031, 8061>>, <<8064, 8116>>, <<8118, 8124>>, <<8126, 8126>>,
     <<8130, 8132>>, <<8134, 8140>>, <<8144, 8147>>, <<8150, 8155>>, <<8160, 8172>>, <<8178, 8180>>,
     <<8182, 8188>>, <<8450, 8450>>, <<8455, 8455>>, <<8458, 8467>>, <<8469, 8469>>, <<8473, 8477>>,
     <<8484, 8484>>, <<8486, 8486>>, <<8488, 8488>>, <<8490, 8493>>, <<8495, 8500>>, <<8505, 8505>>,
     <<8508, 8511>>, <<8517, 8521>>, <<8526, 8526>>, <<8544, 8575>>, <<8579, 8580>>, <<9398, 9449>>,
     <<11264, 11387>>, <<11390, 11492>>, <<11499, 11502>>, <<11506, 11507>>, <<11520, 11557>>, <<11559, 11559>>,
     <<11565, 11565>>, <<42560, 42605>>, <<42624, 42651>>, <<42786, 42863>>, <<42865, 42887>>, <<42891, 42894>>,
     <<42896, 42954>>, <<42960, 42961>>, <<42963, 42963>>, <<42965, 42969>>, <<42997, 42998>>, <<43002, 43002>>,
     <<43824, 43866>>, <<43872, 43880>>, <<43888, 43967>>, <<64256, 64262>>, <<64275, 64279>>, <<65313, 65338>>,
     <<65345, 65370>>, <<66560, 66639>>, <<66736, 66771>>, <<66776, 66811>>, <<66928, 66938>>, <<66940, 66954>>,
     <<66956, 66962>>, <<66964, 66965>>, <<66967, 66977>>, <<66979, 66993>>, <<66995, 67001>>, <<67003, 67004>>,
     <<68736, 68786>>, <<68800, 68850>>, <<71840, 71903>>, <<93760, 93823>>, <<119808, 119892>>, <<119894, 119964>>,
     <<119966, 119967>>, <<119970, 119970>>, <<119973, 119974>>, <<119977, 119980>>, <<119982, 119993>>, <<119995, 119995>>,
     <<119997, 120003>>, <<120005, 120069>>, <<120071, 120074>>, <<120077, 120084>>, <<120086, 120092>>, <<120094, 120121>>,
     <<120123, 120126>>, <<120128, 120132>>, <<120134, 120134>>, <<120138, 120144>>, <<120146, 120485>>, <<120488, 120512>>,
     <<120514, 120538>>, <<120540, 120570>>, <<120572, 120596>>, <<120598, 120628>>, <<120630, 120654>>, <<120656, 120686>>,
     <<120688, 120712>>, <<120714, 120744>>, <<120746, 120770>>, <<120772, 120779>>, <<122624, 122633>>, <<122635, 122654>>,
     <<125184, 125251>>, <<127280, 127305>>, <<127312, 127337>>, <<127344, 127369>>}

\* c, a character that is not case-ignorable, is a cased letter; of Latin-1
\* these are the letters
Cased(c) ==
    IF ByCodePoint(c) THEN InRanges(CodePoint(c), CasedRanges)
    ELSE c \in LatinCapitals
                \cup {LowerLetters[i] : i \in DOMAIN LowerLetters}
                \cup {LowerLatin[i] : i \in DOMAIN LowerLatin}
                \cup {"ª", "µ", "º", "ß", "ÿ"}

-----------------------------------------------------------------------------
(* str methods and the regular expressions of qa_engine.py *)

\* the capital sigma at text[i] ends a word: the nearest character before
\* it that is not case-ignorable is a cased letter, and the nearest after it
\* is none
FinalSigma(text, i) ==
    /\ \E j \in 1..(i - 1) :
          /\ Cased(text[j])
          /\ \A k \in (j + 1)..(i - 1) : CaseIgnorable(text[k])
    /\ ~\E j \in (i + 1)..Len(text) :
           /\ Cased(text[j])
           /\ \A k \in (i + 1)..(j - 1) : CaseIgnorable(text[k])

\* str.lower(): character by character but for the capital sigma, and where
\* a character becomes two the lowered parts are put end to end
Lower(text) ==
    LET RECURSIVE Joined(_)
        Joined(parts) ==
            IF parts = << >> THEN << >> ELSE Head(parts) \o Joined(Tail(parts))
    IN  Joined([i \in 1..Len(text) |->
                   IF text[i] = CapitalSigma
                   THEN << IF FinalSigma(text, i) THEN "U+03C2" ELSE "U+03C3" >>
                   ELSE LowerChar(text[i])])

\* re.sub(r'\s+', ' ', text): every maximal run of whitespace becomes one space
CollapseWhitespace(text) ==
    LET RECURSIVE CollapseFrom(_)
        CollapseFrom(i) ==
            IF i > Len(text) THEN << >>
            ELSE IF text[i] \in Whitespace
                 THEN IF i > 1 /\ text[i - 1] \in Whitespace
                      THEN CollapseFrom(i + 1)
                      ELSE << " " >> \o CollapseFrom(i + 1)
                 ELSE << text[i] >> \o CollapseFrom(i + 1)
    IN  CollapseFrom(1)

\* str.strip(): leading and trailing whitespace removed
Strip(text) ==
    LET inked == {i \in 1..Len(text) : text[i] \notin Whitespace}
    IN  IF inked = {} THEN << >>
        ELSE SubSeq(text,
                    CHOOSE i \in inked : \A j \in inked : i <= j,
                    CHOOSE i \in inked : \A j \in inked : i >= j)

\* the characters the class [^\w\s\-\.\?\!] leaves out
KeptChars == WordChars \cup Whitespace \cup KeptPunctuation

\* re.sub(r'[^\w\s\-\.\?\!]', '', text)
RemoveSpecial(text) == SelectSeq(text, LAMBDA c : c \in KeptChars)

\* QAEngine.preprocess_text
preprocess_text(text) ==
    IF text = None \/ text = << >> THEN << >>
    ELSE RemoveSpecial(Strip(CollapseWhitespace(Lower(text))))

\* keyword in text
IsSubstring(k, text) ==
    \E i \in 1..(Len(text) - Len(k) + 1) : SubSeq(text, i, i + Len(k) - 1) = k

-----------------------------------------------------------------------------
(* Program constants *)

MinWordLen == 4                 \* \w{4,}
MaxKeywordWords == 10           \* words[:10]
PostKeywordWeight == 10         \* keyword_matches * 10
PostBonusCap == 30              \* min(..., 30)
ContentKeywordWeight == 15      \* keyword_matches * 15
ContentBonusCap == 40           \* min(..., 40)
DefaultPostThreshold == 60      \* find_similar_posts(..., threshold=60)
DefaultContentThreshold == 50   \* find_relevant_content(..., threshold=50)
TopPosts == 5                   \* similar_posts[:5]
TopContent == 3                 \* relevant_content[:3]

\* content_score * 0.8 and its sum with the keyword bonus are doubles.  A
\* score is held as an integer in the order of the code's doubles: a score of
\* decimal value s is ScoreUnit * s, which is even, when the code's double is
\* the double nearest to s, and one more when it is the next double above,
\* which is the one way the doubles of the code depart from the decimal
\* values (RoundedUp).  A threshold t, an integer, is compared as
\* ScoreUnit * t.
ScoreUnit == 10

ContentWeight == 8              \* content_score * 0.8, in that unit

-----------------------------------------------------------------------------
(* QAEngine.extract_keywords *)

tech_terms ==
  << <<"p", "y", "t", "h", "o", "n">>,
     <<"p", "a", "n", "d", "a", "s">>,
     <<"n", "u", "m", "p", "y">>,
     <<"m", "a", "t", "p", "l", "o", "t", "l", "i", "b">>,
     <<"s", "e", "a", "b", "o", "r", "n">>,
     <<"s", "k", "l", "e", "a", "r", "n">>,
     <<"j", "u", "p", "y", "t", "e", "r">>,
     <<"n", "o", "t", "e", "b", "o", "o", "k">>,
     <<"d", "a", "t", "a", "f", "r", "a", "m", "e">>,
     <<"c", "s", "v">>,
     <<"a", "p", "i">>,
     <<"s", "q", "l">>,
     <<"d", "a", "t", "a", "b", "a", "s", "e">>,
     <<"v", "i", "s", "u", "a", "l", "i", "z", "a", "t", "i", "o", "n">>,
     <<"p", "l", "o", "t">>,
     <<"c", "h", "a", "r", "t">>,
     <<"r", "e", "g", "r", "e", "s", "s", "i", "o", "n">>,
     <<"c", "l", "a", "s", "s", "i", "f", "i", "c", "a", "t", "i", "o", "n">>,
     <<"m", "a", "c", "h", "i", "n", "e", " ", "l", "e", "a", "r", "n", "i", "n", "g">>,
     <<"m", "l">>,
     <<"d", "a", "t", "a", " ", "s", "c", "i", "e", "n", "c", "e">>,
     <<"s", "t", "a", "t", "i", "s", "t", "i", "c", "s">>,
     <<"a", "n", "a", "l", "y", "s", "i", "s">> >>

\* re.findall(r'\b\w{4,}\b', text): of the maximal runs of word characters
\* of text, in order, those of at least four characters
LongWords(text) ==
    LET \* the words from position i on; word holds the positions of the
        \* word characters of text
        RECURSIVE WordsFrom(_, _)
        WordsFrom(word, i) ==
            IF i > Len(text) THEN << >>
            ELSE IF i \notin word THEN WordsFrom(word, i + 1)
            ELSE LET end == CHOOSE j \in i..Len(text) :
                                /\ \A k \in i..j : k \in word
                                /\ (j + 1) \notin word
                 IN  (IF end - i + 1 >= MinWordLen
                      THEN << SubSeq(text, i, end) >>
                      ELSE << >>) \o WordsFrom(word, end + 1)
    IN  WordsFrom({i \in 1..Len(text) : text[i] \in WordChars}, 1)

extract_keywords(text) ==
    LET Keywords(text_lower, kept) ==
            {tech_terms[i] : i \in {j \in DOMAIN tech_terms :
                                       IsSubstring(tech_terms[j], text_lower)}}
                \cup {kept[i] : i \in DOMAIN kept}
    IN  Keywords(Lower(text), Take(LongWords(Lower(text)), MaxKeywordWords))

\* sum(1 for keyword in keywords if keyword in text)
KeywordMatches(keywords, text) ==
    Cardinality({k \in keywords : IsSubstring(k, text)})

-----------------------------------------------------------------------------
(* fuzz.partial_ratio *)

\* The questions of the model, as preprocess_text leaves them
QSqlProcessed ==
    << "s", "q", "l", " ", "c", "s", "v", " ", "m", "l", " ", "a", "p", "i" >>

QSqlImageProcessed ==
    QSqlProcessed \o
    << " ", "e", "x", "t", "r", "a", "c", "t", "e", "d", " ", "f", "r", "o", "m", " ", "i", "m", "a", "g", "e", " ", "m", "l" >>

QImageProcessed ==
    << "e", "x", "t", "r", "a", "c", "t", "e", "d", " ", "f", "r", "o", "m", " ", "i", "m", "a", "g", "e", " ", "m", "l" >>

\* fuzz.partial_ratio(s1, s2) of the fuzzywuzzy library on the texts of the
\* corpora of the model: << s1, s2, ratio >>
RatioTable ==
  {  << QImageProcessed, << "l", " ", "c", " ", "s", "q", "l", " ", "c", "z", "z" >>, 17 >>,
     << QImageProcessed, << "q", "l" >>, 50 >>,
     << QImageProcessed, << "z", " ", "c", "s" >>, 25 >>,
     << QImageProcessed, << "z", " ", "l", " ", "c" >>, 50 >>,
     << QImageProcessed, << "z", " ", "q", "l", " ", "c", "s" >>, 36 >>,
     << QImageProcessed, << "z", "z", " ", "s", "q", "l", " ", "c", "s", "v", " ", "m" >>, 25 >>,
     << QImageProcessed, << "z", "z", "z", " ", "l", " ", "c" >>, 33 >>,
     << QSqlImageProcessed, << "l", " ", "c", " ", "s", "q", "l", " ", "c", "z", "z" >>, 45 >>,
     << QSqlImageProcessed, << "z", " ", "c", "s" >>, 75 >>,
     << QSqlImageProcessed, << "z", " ", "l", " ", "c" >>, 60 >>,
     << QSqlImageProcessed, << "z", " ", "q", "l", " ", "c", "s" >>, 71 >>,
     << QSqlImageProcessed, << "z", "q" >>, 50 >>,
     << QSqlImageProcessed, << "z", "z", " ", "s", "q", "l", " ", "c", "s", "v", " ", "m" >>, 75 >>,
     << QSqlImageProcessed, << "z", "z", "z", " ", "l", " ", "c" >>, 43 >>,
     << QSqlProcessed, << "a", "p", " ", "i" >>, 86 >>,
     << QSqlProcessed, << "c", "s", "c", "s", "v", "s", "q", "m", "a", "p", "i", "c" >>, 61 >>,
     << QSqlProcessed, << "c", "s", "v", "z", "s", "q", "l", "z", "a", "p", "i", "z", "m", "l" >>, 50 >>,
     << QSqlProcessed, << "l", " ", "c", " ", "s", "q", "l", " ", "c", "z", "z" >>, 45 >>,
     << QSqlProcessed, << "z", " ", "a", "p", "i", "z", "c", "s", "v", "z", "m", "l", "z", "s", "q", "l" >>, 29 >>,
     << QSqlProcessed, << "z", " ", "c", "s" >>, 75 >>,
     << QSqlProcessed, << "z", " ", "l", " ", "c" >>, 60 >>,
     << QSqlProcessed, << "z", " ", "q", "l", " ", "c", "s" >>, 71 >>,
     << QSqlProcessed, << "z", "q" >>, 50 >>,
     << QSqlProcessed, << "z", "z", " ", "s", "q", "l", " ", "c", "s", "v", " ", "m" >>, 75 >>,
     << QSqlProcessed, << "z", "z", "z", " ", "l", " ", "c" >>, 43 >> }


\* difflib.SequenceMatcher, on which fuzz.partial_ratio rests when the
\* library runs without python-Levenshtein.  Positions count from 0 as in
\* the code, so the character at position i of a is a[i + 1].

AutojunkLength == 200           \* if self.autojunk and n >= 200

\* the characters of b that SequenceMatcher leaves out of its index: in a b
\* of 200 characters or more, those found more than len(b) // 100 + 1 times
Popular(b) ==
    IF Len(b) < AutojunkLength THEN {}
    ELSE {b[j] : j \in {j \in DOMAIN b :
              Cardinality({k \in DOMAIN b : b[k] = b[j]}) > Len(b) \div 100 + 1}}

\* SequenceMatcher.find_longest_match(alo, ahi, blo, bhi): << i, j, k >>, the
\* longest run of indexed characters, the first one met by rows of a and
\* then by positions of b, extended on both sides while the characters agree
find_longest_match(a, b, popular, alo, ahi, blo, bhi) ==
    LET \* j2len[j] at row i: the length of the run of equal indexed
        \* characters that ends at a[i] and b[j]
        RECURSIVE RunLength(_, _)
        RunLength(i, j) ==
            IF i < alo \/ j < blo THEN 0
            ELSE IF a[i + 1] # b[j + 1] \/ b[j + 1] \in popular THEN 0
            ELSE 1 + RunLength(i - 1, j - 1)
        \* the number of positions by which a match at a[i], b[j] extends in
        \* the direction step (1 or -1), starting d positions away
        RECURSIVE Extension(_, _, _, _)
        Extension(i, j, step, d) ==
            IF /\ alo <= i + step * d /\ i + step * d < ahi
               /\ blo <= j + step * d /\ j + step * d < bhi
               /\ a[i + step * d + 1] = b[j + step * d + 1]
            THEN 1 + Extension(i, j, step, d + 1)
            ELSE 0
        \* besti, bestj, bestsize after the two loops that extend the match
        Widened(besti, bestj, bestsize, back) ==
            << besti - back, bestj - back,
               bestsize + back + Extension(besti, bestj, 1, bestsize) >>
        Extended(besti, bestj, bestsize) ==
            Widened(besti, bestj, bestsize, Extension(besti, bestj, -1, 1))
        \* the run of length k that ends at the pair p of positions
        EndingAt(p, k) == Extended(p[1] - k + 1, p[2] - k + 1, k)
        \* of the ends of the longest runs, the first one that the loops meet
        First(longest) ==
            CHOOSE p \in longest : \A q \in longest :
                p[1] < q[1] \/ (p[1] = q[1] /\ p[2] <= q[2])
        Longest(ends) ==
            {p \in ends : \A q \in ends : RunLength(q[1], q[2]) <= RunLength(p[1], p[2])}
        Run(p) == EndingAt(p, RunLength(p[1], p[2]))
        Best(ends) ==
            IF ends = {} THEN Extended(alo, blo, 0) ELSE Run(First(Longest(ends)))
    IN  Best({p \in (alo..(ahi - 1)) \X (blo..(bhi - 1)) :
                 a[p[1] + 1] = b[p[2] + 1] /\ b[p[2] + 1] \notin popular})

\* SequenceMatcher.get_matching_blocks(), as a set: the longest match of the
\* windows, then those of the windows before it and after it, and the
\* closing block << len(a), len(b), 0 >>.  The code joins matches that touch
\* into one, which changes neither j - i of a block nor the sum of the sizes.
get_matching_blocks(a, b) ==
    LET RECURSIVE MatchesWithin(_, _, _, _, _)
        RECURSIVE Around(_, _, _, _, _, _)
        \* the match x of the windows and the matches of the windows on its
        \* two sides
        Around(x, popular, alo, ahi, blo, bhi) ==
            IF x[3] = 0 THEN {}
            ELSE {x}
                 \cup (IF alo < x[1] /\ blo < x[2]
                       THEN MatchesWithin(popular, alo, x[1], blo, x[2])
                       ELSE {})
                 \cup (IF x[1] + x[3] < ahi /\ x[2] + x[3] < bhi
                       THEN MatchesWithin(popular, x[1] + x[3], ahi, x[2] + x[3], bhi)
                       ELSE {})
        MatchesWithin(popular, alo, ahi, blo, bhi) ==
            Around(find_longest_match(a, b, popular, alo, ahi, blo, bhi),
                   popular, alo, ahi, blo, bhi)
    IN  MatchesWithin(Popular(b), 0, Len(a), 0, Len(b)) \cup {<< Len(a), Len(b), 0 >>}

\* SequenceMatcher.ratio(), 2.0 * matches / (len(a) + len(b)), as the pair
\* << numerator, denominator >>; two such quotients are the same double
\* when they are the same number
ratio(a, b) ==
    LET RECURSIVE SumOfSizes(_)
        SumOfSizes(blocks) ==
            IF blocks = {} THEN 0
            ELSE LET x == CHOOSE x \in blocks : TRUE
                 IN  x[3] + SumOfSizes(blocks \ {x})
    IN  << 2 * SumOfSizes(get_matching_blocks(a, b)), Len(a) + Len(b) >>

\* int(round(100 * r)) of a ratio r that is not above 0.995: round() takes a
\* half to the even neighbour, and the doubles 100 * 0.575 and 100 * 0.545
\* are 57.49999999999999 and 54.50000000000001, not the halves
intr(r) ==
    LET whole == (100 * r[1]) \div r[2]
        rest == (100 * r[1]) % r[2]
    IN  IF 2 * rest > r[2] THEN whole + 1
        ELSE IF 2 * rest < r[2] THEN whole
        ELSE IF whole = 57 THEN 57
        ELSE IF whole = 54 THEN 55
        ELSE IF whole % 2 = 0 THEN whole ELSE whole + 1

\* the loop of fuzz.partial_ratio over the matching blocks: the best ratio
\* of the shorter text with the stretch of the longer that a block lines it
\* up with, 100 as soon as one is above 0.995
BestBlockRatio(shorter, longer) ==
    LET long_substr(long_start) ==
            SubSeq(longer, long_start + 1, Min(long_start + Len(shorter), Len(longer)))
        Outcome(scores) ==
            IF \E r \in scores : 1000 * r[1] > 995 * r[2] THEN 100
            ELSE intr(CHOOSE r \in scores : \A q \in scores : q[1] * r[2] <= r[1] * q[2])
    IN  Outcome({ratio(shorter, long_substr(Max(block[2] - block[1], 0))) :
                    block \in get_matching_blocks(shorter, longer)})

\* fuzz.partial_ratio(s1, s2): 100 for equal texts, 0 when one is empty,
\* else what the loop over the matching blocks gives.  Where the outcome of
\* the loop is known without running it, it is taken from there: a shorter
\* text found whole in a longer one of less than 200 characters is the first
\* block, of ratio 1; texts with no character in common have the closing
\* block alone, of ratio 0; and RatioTable holds the outcome for the texts
\* of the corpora of the model.
partial_ratio(s1, s2) ==
    IF s1 = s2 THEN 100
    ELSE IF Len(s1) = 0 \/ Len(s2) = 0 THEN 0
    ELSE LET shorter == IF Len(s1) <= Len(s2) THEN s1 ELSE s2
             longer == IF Len(s1) <= Len(s2) THEN s2 ELSE s1
         IN  IF Len(longer) < AutojunkLength /\ IsSubstring(shorter, longer) THEN 100
             ELSE IF \A i \in DOMAIN shorter : \A j \in DOMAIN longer : shorter[i] # longer[j]
                  THEN 0
                  ELSE IF \E row \in RatioTable : row[1] = s1 /\ row[2] = s2
                       THEN (CHOOSE row \in RatioTable : row[1] = s1 /\ row[2] = s2)[3]
                       ELSE BestBlockRatio(shorter, longer)

-----------------------------------------------------------------------------
(* Scoring: the body of the loops of find_similar_posts and               *)
(* find_relevant_content                                                   *)

\* The pairs << content_score, keyword_bonus >>, of a fuzzy score 0..100 and
\* a bonus 0, 10, 20 or 30, for which the double content_score * 0.8 +
\* keyword_bonus is not the double nearest to the decimal value but the next
\* one above it: 61 * 0.8 + 20 is 68.80000000000001, while 86 * 0.8 + 0 is 68.8
RoundedUp ==
    {<<3, 0>>, <<6, 0>>, <<7, 0>>, <<7, 10>>, <<12, 0>>, <<14, 0>>, <<14, 10>>,
     <<14, 20>>, <<17, 0>>, <<19, 0>>, <<19, 10>>, <<23, 0>>, <<23, 10>>, <<23, 20>>,
     <<23, 30>>, <<24, 0>>, <<24, 10>>, <<28, 0>>, <<28, 10>>, <<28, 20>>, <<28, 30>>,
     <<29, 0>>, <<33, 0>>, <<33, 10>>, <<33, 20>>, <<33, 30>>, <<34, 0>>, <<38, 0>>,
     <<38, 10>>, <<38, 20>>, <<38, 30>>, <<39, 0>>, <<41, 0>>, <<41, 10>>, <<41, 20>>,
     <<41, 30>>, <<46, 0>>, <<46, 10>>, <<46, 20>>, <<46, 30>>, <<48, 0>>, <<48, 10>>,
     <<48, 20>>, <<51, 0>>, <<51, 10>>, <<51, 20>>, <<51, 30>>, <<53, 0>>, <<53, 10>>,
     <<53, 20>>, <<56, 0>>, <<56, 10>>, <<56, 20>>, <<56, 30>>, <<58, 0>>, <<58, 10>>,
     <<61, 0>>, <<61, 10>>, <<61, 20>>, <<61, 30>>, <<63, 0>>, <<63, 10>>, <<66, 0>>,
     <<66, 10>>, <<66, 20>>, <<66, 30>>, <<68, 0>>, <<71, 0>>, <<71, 10>>, <<71, 20>>,
     <<71, 30>>, <<73, 0>>, <<76, 0>>, <<76, 10>>, <<76, 20>>, <<76, 30>>, <<78, 0>>,
     <<82, 0>>, <<82, 10>>, <<82, 20>>, <<82, 30>>, <<87, 0>>, <<87, 10>>, <<87, 20>>,
     <<87, 30>>, <<92, 0>>, <<92, 10>>, <<92, 20>>, <<92, 30>>, <<96, 0>>, <<96, 10>>,
     <<96, 20>>, <<96, 30>>, <<97, 0>>, <<97, 10>>, <<97, 20>>, <<97, 30>>}

\* content_score * 0.8 + keyword_bonus
WeightedPlus(content_score, keyword_bonus) ==
    ContentWeight * content_score + ScoreUnit * keyword_bonus
        + (IF << content_score, keyword_bonus >> \in RoundedUp THEN 1 ELSE 0)

\* max(title_score, content_score * 0.8): the int title_score unless the
\* double is greater
combined_score(title_score, content_score) ==
    Max(ScoreUnit * title_score, WeightedPlus(content_score, 0))

\* A slip of the cap: the bonus has none
PostKeywordBonusUncapped(keyword_matches) == keyword_matches * PostKeywordWeight

\* A slip of the cap: the bonus wraps at the cap instead of stopping there
PostKeywordBonusWrapped(keyword_matches) ==
    (keyword_matches * PostKeywordWeight) % PostBonusCap

\* min(keyword_matches * 10, 30)
PostKeywordBonus(keyword_matches) ==
    Min(keyword_matches * PostKeywordWeight, PostBonusCap)

\* min(keyword_matches * 15, 40)
ContentKeywordBonus(keyword_matches) ==
    Min(keyword_matches * ContentKeywordWeight, ContentBonusCap)

\* final_score = combined_score + keyword_bonus: a sum of ints when
\* combined_score is the title_score, of a double and an int otherwise
PostFinalScore(title_score, content_score, keyword_matches) ==
    IF combined_score(title_score, content_score) = ScoreUnit * title_score
    THEN ScoreUnit * title_score + ScoreUnit * PostKeywordBonus(keyword_matches)
    ELSE WeightedPlus(content_score, PostKeywordBonus(keyword_matches))

\* final_score = score + keyword_bonus, a sum of ints
ContentFinalScore(score, keyword_matches) ==
    ScoreUnit * score + ScoreUnit * ContentKeywordBonus(keyword_matches)

\* A slip of the test: the default threshold of the content search stands in
\* for the threshold of the call
MeetsDefaultThreshold(final_score, threshold) ==
    final_score >= ScoreUnit * DefaultContentThreshold

\* final_score >= threshold
MeetsThreshold(final_score, threshold) == final_score >= ScoreUnit * threshold

\* f"{post.get('title', '')} {post.get('content', '')}"
PostText(post) == Get(post, "title", << >>) \o << " " >> \o Get(post, "content", << >>)

\* f"{content.get('title', '')} {content.get('description', '')}"
ContentText(content) ==
    Get(content, "title", << >>) \o << " " >> \o Get(content, "description", << >>)

\* The entry find_similar_posts appends for a post that meets the threshold.
\* keywords is extract_keywords(question), which the loop computes anew for
\* every post and which is the same for every post.
ScoredPost(post, question_processed, keywords) ==
    LET post_text_processed == preprocess_text(PostText(post))
        Entry(title_score, content_score, keyword_matches) ==
            [post |-> post,
             score |-> PostFinalScore(title_score, content_score, keyword_matches),
             title_score |-> title_score,
             content_score |-> content_score,
             keyword_matches |-> keyword_matches]
    IN  Entry(partial_ratio(question_processed, preprocess_text(Get(post, "title", << >>))),
              partial_ratio(question_processed, post_text_processed),
              KeywordMatches(keywords, post_text_processed))

\* The entry find_relevant_content appends for an item that meets the threshold
ScoredContent(content, question_processed, keywords) ==
    LET content_text_processed == preprocess_text(ContentText(content))
        Entry(score, keyword_matches) ==
            [content |-> content,
             score |-> ContentFinalScore(score, keyword_matches),
             keyword_matches |-> keyword_matches]
    IN  Entry(partial_ratio(question_processed, content_text_processed),
              KeywordMatches(keywords, content_text_processed))

-----------------------------------------------------------------------------
(* Retrieval *)

\* A slip of the sort: an ascending sort that is then reversed, which puts x
\* before the entries of equal score
InsertBeforeEqual(sorted, x) ==
    LET n == Cardinality({i \in DOMAIN sorted : sorted[i].score > x.score})
    IN  SubSeq(sorted, 1, n) \o << x >> \o SubSeq(sorted, n + 1, Len(sorted))

\* Where list.sort(key=score, reverse=True) puts x among the entries sorted
\* before it: after every entry whose score is at least x's (the sort is
\* stable, also with reverse=True)
InsertByScore(sorted, x) ==
    LET n == Cardinality({i \in DOMAIN sorted : sorted[i].score >= x.score})
    IN  SubSeq(sorted, 1, n) \o << x >> \o SubSeq(sorted, n + 1, Len(sorted))

\* list.sort(key=lambda x: x['score'], reverse=True)
RECURSIVE SortByScore(_)
SortByScore(list) ==
    IF list = << >> THEN << >>
    ELSE InsertByScore(SortByScore(SubSeq(list, 1, Len(list) - 1)), list[Len(list)])

\* QAEngine.find_similar_posts, on the corpus posts
find_similar_posts(posts, question, threshold) ==
    IF posts = << >> THEN << >>
    ELSE LET question_processed == preprocess_text(question)
             keywords == extract_keywords(question)
             Sorted(similar_posts) == Take(SortByScore(similar_posts), TopPosts)
         IN  Sorted(SelectSeq([i \in DOMAIN posts |->
                                  ScoredPost(posts[i], question_processed, keywords)],
                              LAMBDA m : MeetsThreshold(m.score, threshold)))

\* QAEngine.find_relevant_content, on the corpus items
find_relevant_content(items, question, threshold) ==
    IF items = << >> THEN << >>
    ELSE LET question_processed == preprocess_text(question)
             keywords == extract_keywords(question)
             Sorted(relevant_content) == Take(SortByScore(relevant_content), TopContent)
         IN  Sorted(SelectSeq([i \in DOMAIN items |->
                                  ScoredContent(items[i], question_processed, keywords)],
                              LAMBDA m : MeetsThreshold(m.score, threshold)))

-----------------------------------------------------------------------------
(* Answer synthesis and links *)

MaxLinks == 5                   \* links[:5]
AnswerItems == 2                \* relevant_content[:2], similar_posts[:2]
DescriptionPreview == 200       \* description[:200]
ContentPreview == 300           \* content[:300]

Untitled == << "U", "n", "t", "i", "t", "l", "e", "d" >>

UntitledPost == << "U", "n", "t", "i", "t", "l", "e", "d", " ", "P", "o", "s", "t" >>

Ellipsis == << ".", ".", "." >>

LeadIn == "Based on the available course materials and forum discussions, here's what I found:"

Fallback == "I couldn't find specific information related to your question in the current knowledge base. Please try rephrasing your question or contact the course instructor for assistance."

ContentHeader == "\n**Course Content:**"

PostsHeader == "\n**Related Forum Discussions:**"

Closing == "\nFor more detailed information, please check the supporting links provided below."

ValidQuestionPrompt == "Please provide a valid question."

\* An answer is the sequence of its parts, which the code joins with "\n".
\* A part is a fixed sentence or a bullet line.
Fixed(text) == [kind |-> "fixed", text |-> text]

\* f"* **{title}**: {body}"
BulletWith(title, body) == [kind |-> "bullet", title |-> title, body |-> body]

\* f"* **{title}**"
Bullet(title) == [kind |-> "bullet", title |-> title]

\* text.split('.')[0]
BeforeFirstDot(text) ==
    LET dots == {i \in DOMAIN text : text[i] = "."}
    IN  IF dots = {} THEN text
        ELSE SubSeq(text, 1, (CHOOSE i \in dots : \A j \in dots : i <= j) - 1)

ContentBullet(item) ==
    LET content == item.content
        title == Get(content, "title", Untitled)
        description == Get(content, "description", << >>)
    IN  IF description # << >>
        THEN BulletWith(title, Take(description, DescriptionPreview) \o Ellipsis)
        ELSE Bullet(title)

PostBullet(item) ==
    LET post == item.post
        title == Get(post, "title", UntitledPost)
        content == Get(post, "content", << >>)
    IN  IF content # << >>
        THEN BulletWith(title, BeforeFirstDot(Take(content, ContentPreview)) \o << "." >>)
        ELSE Bullet(title)

\* A slip of the first test: only the forum posts decide whether anything
\* was found
generate_answer_posts_only(question, similar_posts, relevant_content) ==
    IF similar_posts = << >>
    THEN << Fixed(Fallback) >>
    ELSE << Fixed(LeadIn), Fixed(PostsHeader) >>
         \o [i \in DOMAIN Take(similar_posts, AnswerItems) |-> PostBullet(similar_posts[i])]
         \o << Fixed(Closing) >>

\* A slip of the two loops: every retrieved item gets a bullet line
generate_answer_unsliced(question, similar_posts, relevant_content) ==
    IF similar_posts = << >> /\ relevant_content = << >>
    THEN << Fixed(Fallback) >>
    ELSE << Fixed(LeadIn) >>
         \o (IF relevant_content # << >>
             THEN << Fixed(ContentHeader) >>
                  \o [i \in DOMAIN relevant_content |-> ContentBullet(relevant_content[i])]
             ELSE << >>)
         \o (IF similar_posts # << >>
             THEN << Fixed(PostsHeader) >>
                  \o [i \in DOMAIN similar_posts |-> PostBullet(similar_posts[i])]
             ELSE << >>)
         \o << Fixed(Closing) >>

\* QAEngine.generate_answer
generate_answer(question, similar_posts, relevant_content) ==
    IF similar_posts = << >> /\ relevant_content = << >>
    THEN << Fixed(Fallback) >>
    ELSE LET shown_content == Take(relevant_content, AnswerItems)
             shown_posts == Take(similar_posts, AnswerItems)
         IN  << Fixed(LeadIn) >>
             \o (IF relevant_content # << >>
                 THEN << Fixed(ContentHeader) >>
                      \o [i \in DOMAIN shown_content |-> ContentBullet(shown_content[i])]
                 ELSE << >>)
             \o (IF similar_posts # << >>
                 THEN << Fixed(PostsHeader) >>
                      \o [i \in DOMAIN shown_posts |-> PostBullet(shown_posts[i])]
                 ELSE << >>)
             \o << Fixed(Closing) >>

\* content.get('url'), post.get('url'): the url is there and not empty
HasUrl(record) == Get(record, "url", "") # ""

ContentLink(item) ==
    [url |-> item.content.url,
     text |-> [label |-> "Course Material: ", title |-> Get(item.content, "title", Untitled)]]

PostLink(item) ==
    [url |-> item.post.url,
     text |-> [label |-> "Forum Discussion: ", title |-> Get(item.post, "title", UntitledPost)]]

\* A slip of the links: the list is not cut to its first five entries
PrepareLinksUncapped(similar_posts, relevant_content) ==
    LET with_content == SelectSeq(relevant_content, LAMBDA item : HasUrl(item.content))
        with_posts == SelectSeq(similar_posts, LAMBDA item : HasUrl(item.post))
    IN  [i \in DOMAIN with_content |-> ContentLink(with_content[i])]
            \o [i \in DOMAIN with_posts |-> PostLink(with_posts[i])]

\* The links get_answer returns: the "Prepare links" part of get_answer
PrepareLinks(similar_posts, relevant_content) ==
    LET with_content == SelectSeq(relevant_content, LAMBDA item : HasUrl(item.content))
        with_posts == SelectSeq(similar_posts, LAMBDA item : HasUrl(item.post))
        links == [i \in DOMAIN with_content |-> ContentLink(with_content[i])]
                    \o [i \in DOMAIN with_posts |-> PostLink(with_posts[i])]
    IN  Take(links, MaxLinks)

\* A slip of the test: "not question" alone, without the strip
IsEmpty(question) == question = None \/ question = << >>

\* not question or not question.strip()
IsBlank(question) ==
    question = None \/ question = << >> \/ Strip(question) = << >>

\* get_answer after its two retrieval calls: the answer, the links, the
\* returned dict
answer_and_links(question, similar_posts, relevant_content) ==
    [answer |-> generate_answer(question, similar_posts, relevant_content),
     links |-> PrepareLinks(similar_posts, relevant_content)]

\* QAEngine.get_answer, on the corpora posts and items
get_answer(posts, items, question) ==
    IF IsBlank(question)
    THEN [answer |-> << Fixed(ValidQuestionPrompt) >>, links |-> << >>]
    ELSE answer_and_links(question,
                          find_similar_posts(posts, question, DefaultPostThreshold),
                          find_relevant_content(items, question, DefaultContentThreshold))

\* QAEngine.get_stats; now is what datetime.now() reads
get_stats(posts, items, now) ==
    [discourse_posts |-> Len(posts),
     course_content_items |-> Len(items),
     total_items |-> Len(posts) + Len(items),
     last_updated |-> now]

-----------------------------------------------------------------------------
(* Loading the corpora *)

\* A corpus file: it is missing, it exists and cannot be opened, it holds
\* text that is not JSON, or it holds the JSON list data
Missing == [state |-> "missing", data |-> << >>]

Unreadable == [state |-> "unreadable", data |-> << >>]

Malformed == [state |-> "malformed", data |-> << >>]

Holding(data) == [state |-> "ok", data |-> data]

\* open() or json.load() raises on the file
FileRaises(file) == file.state \in {"unreadable", "malformed"}

\* A slip of the loader: no except clause, so what open() or json.load()
\* raises leaves the constructor
load_data_uncaught(posts, content) ==
    IF FileRaises(posts) \/ FileRaises(content)
    THEN [discourse_posts |-> << >>, course_content |-> << >>, raised |-> TRUE]
    ELSE [discourse_posts |-> IF posts.state = "ok" THEN posts.data ELSE << >>,
          course_content |-> IF content.state = "ok" THEN content.data ELSE << >>,
          raised |-> FALSE]

\* QAEngine.__init__ and load_data: the corpora the engine holds afterwards,
\* and whether an exception left the constructor
load_data(posts, content) ==
    IF FileRaises(posts)
    THEN [discourse_posts |-> << >>, course_content |-> << >>, raised |-> FALSE]
    ELSE IF FileRaises(content)
         THEN [discourse_posts |-> << >>, course_content |-> << >>, raised |-> FALSE]
         ELSE [discourse_posts |-> IF posts.state = "ok" THEN posts.data ELSE << >>,
               course_content |-> IF content.state = "ok" THEN content.data ELSE << >>,
               raised |-> FALSE]

-----------------------------------------------------------------------------
(* The questions and corpus records of the model *)

\* "SQL csv, ml api"
QSql == << "S", "Q", "L", " ", "c", "s", "v", ",", " ", "m", "l", " ", "a", "p", "i" >>

\* a whitespace-only question: space, tab, carriage return, no-break space
QWhitespace == << " ", "\t", "\r", " " >>

\* what OCR reads from an image that holds text
OcrText == << "m", "l" >>

\* "\n\nExtracted from image: "
ImagePrefix ==
    << "\n", "\n", "E", "x", "t", "r", "a", "c", "t", "e", "d", " ", "f", "r", "o", "m",
       " ", "i", "m", "a", "g", "e", ":", " " >>

\* Posts, with their final_score against QSql: 60, 56.8, 80 and 80
PostAt60 == [title |-> << "z" >>, content |-> << "c", "s" >>]

PostBelow60 == [title |-> << "z" >>, content |-> << "q", "l", " ", "c", "s" >>]

PostAt80 == [content |-> << "q", "l" >>]

PostAt80ByKeywords ==
    [title |-> << "z", "z" >>, content |-> << "s", "q", "l", " ", "c", "s", "v", " ", "m" >>]

\* Content items, with their final_score against QSql: 50, 43, 60 and 60
ContentAt50 == [title |-> << >>, description |-> << "z", "q" >>]

ContentBelow50 == [title |-> << "z", "z", "z" >>, description |-> << "l", " ", "c" >>]

ContentAt60 == [title |-> << "z" >>, description |-> << "l", " ", "c" >>]

ContentAt60ByKeyword ==
    [title |-> << "l", " ", "c" >>, description |-> << "s", "q", "l", " ", "c", "z", "z" >>]

\* Records that hold the four keywords of QSql, "csv", "api", "sql" and "ml",
\* in an order that makes them fuzzily unlike it, and records that share no
\* character with it. Against QSql: a post of final_score 23.2 + 30 = 53.2, a
\* post of 40 + 30 = 70, a post of 0, a content item of 50 + 40 = 90 and a
\* content item of 0
PostKeywordsOnly ==
    [title |-> << "z" >>,
     content |-> << "a", "p", "i", "z", "c", "s", "v", "z", "m", "l", "z", "s", "q", "l" >>]

PostByBonus ==
    [content |-> << "c", "s", "v", "z", "s", "q", "l", "z", "a", "p", "i", "z", "m", "l" >>]

PostNoOverlap == [content |-> << "z", "z" >>]

ContentByBonus ==
    [description |-> << "c", "s", "v", "z", "s", "q", "l", "z", "a", "p", "i", "z", "m", "l" >>]

ContentNoOverlap == [description |-> << "z", "z" >>]

\* Posts whose final_score against QSql has the decimal value 68.8 both, and
\* is 86 * 0.8 + 0 = 68.8 for the first and 61 * 0.8 + 20 = 68.80000000000001
\* for the second
PostNearest == [content |-> << "a", "p", " ", "i" >>]

PostRoundedUp ==
    [content |-> << "c", "s", "c", "s", "v", "s", "q", "m", "a", "p", "i", "c" >>]

\* Posts with and without a url: final_score 100, 80 and 56.8 against QSql
PostLinked == [title |-> << "q", "l" >>, content |-> << >>, url |-> "http://forum/1"]

PostBare == [content |-> << "q", "l" >>, url |-> ""]

PostUnmatched ==
    [title |-> << "z" >>, content |-> << "q", "l", " ", "c", "s" >>, url |-> "http://forum/3"]

\* Content items with and without a url: final_score 60, 100 and 43 against QSql
ContentLinked ==
    [title |-> << "z" >>, description |-> << "l", " ", "c" >>, url |-> "http://course/1"]

ContentBare == [title |-> << "m" >>]

ContentUnmatched ==
    [title |-> << "z", "z", "z" >>, description |-> << "l", " ", "c" >>, url |-> "http://course/3"]

-----------------------------------------------------------------------------
(* The engine, the request layer and its worker threads *)

MaxFilePosts == 1

MaxFileContent == 1

\* The worker thread that runs the get_answer of process_question, and
\* another thread that calls get_answer itself
Worker == "worker"

Caller == "caller"

Threads == {Worker, Caller}

PostsFiles ==
    {Missing, Unreadable, Malformed}
        \cup {Holding(c) : c \in SeqsUpTo({PostLinked}, MaxFilePosts)}

ContentFiles ==
    {Missing, Unreadable, Malformed}
        \cup {Holding(c) : c \in SeqsUpTo({ContentLinked}, MaxFileContent)}

\* request.image: no image, a string that is not base64, bytes that are no
\* image, an image on which OCR raises, an image in which OCR reads only
\* whitespace, an image that holds text
Images == {"none", "undecodable", "unopenable", "unreadable", "blank", "with_text"}

RequestQuestions == {QSql, QWhitespace}

DirectQuestions == {None, << >>, QSql}

NoResult == [answer |-> << >>, links |-> << >>]

NoResponse == [status |-> 0]

NoRequest == [question |-> << >>, image |-> "none"]

IdleThread ==
    [pc |-> "idle", via |-> "none", request |-> NoRequest, question |-> << >>,
     similar_posts |-> << >>, relevant_content |-> << >>,
     result |-> NoResult, invoked |-> << >>, response |-> NoResponse]

NormIdle == [pc |-> "idle", text |-> << >>, once |-> << >>, twice |-> << >>]

NoStats == [discourse_posts |-> 0, course_content_items |-> 0, total_items |-> 0,
            last_updated |-> "never"]

\* the list of posts the scraper saves
ScrapedPosts == << PostBare, PostLinked >>

NothingLoaded ==
    [discourse_posts |-> << >>, course_content |-> << >>,
     posts_file |-> Missing, content_file |-> Missing]

\* posts_file and content_file are the files as the run of load_data under
\* way found them; ran tells that load_data has been run on the constructed
\* engine
LoaderIdle ==
    [pc |-> "idle", ran |-> FALSE, posts_file |-> Missing, content_file |-> Missing]

ScraperIdle == [pc |-> "idle"]

NoCall ==
    [fn |-> "none", question |-> << >>, threshold |-> 0, ret |-> << >>, result |-> NoResult]

\* base64.b64decode, Image.open or pytesseract.image_to_string raises on the
\* image
ImageRaises(image) == image \in {"undecodable", "unopenable", "unreadable"}

\* pytesseract.image_to_string: what it reads from an image it can read,
\* which ends with a line feed and a form feed
image_to_string(image) ==
    IF image = "with_text" THEN OcrText \o << "\n", "\f" >> ELSE << " ", "\n", "\f" >>

\* extract_text_from_image
extract_text_from_image(image) ==
    IF ImageRaises(image) THEN << >> ELSE Strip(image_to_string(image))

\* A slip of process_question: the text read from the image is appended
\* without the test that there is any
full_question_unguarded(request) ==
    IF request.image # "none"
    THEN request.question \o ImagePrefix \o extract_text_from_image(request.image)
    ELSE request.question

\* process_question: the full_question handed to get_answer
full_question(request) ==
    IF request.image # "none" /\ extract_text_from_image(request.image) # << >>
    THEN request.question \o ImagePrefix \o extract_text_from_image(request.image)
    ELSE request.question

\* A slip of the sort: the corpus itself is put in reverse order
CorpusReversed(corpus) == [i \in DOMAIN corpus |-> corpus[Len(corpus) + 1 - i]]

\* self.discourse_posts and self.course_content after a retrieval method has
\* run on them: the loop reads the corpus, and the sort orders the new list
CorpusAfterRetrieval(corpus) == corpus

Init ==
    /\ posts_file \in PostsFiles
    /\ content_file \in ContentFiles
    /\ engine = "absent"
    /\ discourse_posts = << >>
    /\ course_content = << >>
    /\ loaded = NothingLoaded
    /\ loader = LoaderIdle
    /\ scraper = ScraperIdle
    /\ th = [t \in Threads |-> IdleThread]
    /\ stats = NoStats
    /\ call = NoCall
    /\ norm = NormIdle

\* qa_engine = QAEngine()
Construct ==
    /\ engine = "absent"
    /\ LET r == load_data(posts_file, content_file)
       IN  /\ engine' = IF r.raised THEN "failed" ELSE "ready"
           /\ discourse_posts' = r.discourse_posts
           /\ course_content' = r.course_content
           /\ loaded' = [discourse_posts |-> r.discourse_posts,
                         course_content |-> r.course_content,
                         posts_file |-> posts_file,
                         content_file |-> content_file]
    /\ UNCHANGED << posts_file, content_file, th, stats, call, norm, loader, scraper >>

\* DiscourseScraper.save_posts: open(filename, 'w') creates the file or
\* empties it, and an empty file is no JSON; on a file that cannot be opened
\* the call ends here
SavePostsOpen ==
    /\ scraper.pc = "idle"
    /\ IF posts_file.state = "unreadable"
       THEN UNCHANGED << scraper, posts_file >>
       ELSE /\ scraper' = [scraper EXCEPT !.pc = "writing"]
            /\ posts_file' = Malformed
    /\ UNCHANGED << content_file, engine, discourse_posts, course_content, loaded, loader,
                    th, stats, call, norm >>

\* DiscourseScraper.save_posts: json.dump(data['posts'], f, ...) and the
\* close of the file
SavePostsDump ==
    /\ scraper.pc = "writing"
    /\ scraper' = [scraper EXCEPT !.pc = "idle"]
    /\ posts_file' = Holding(ScrapedPosts)
    /\ UNCHANGED << content_file, engine, discourse_posts, course_content, loaded, loader,
                    th, stats, call, norm >>

\* The worker thread t can take a call
Free(t) ==
    \/ th[t].pc \in {"idle", "responded"}
    \/ th[t].pc = "returned" /\ (th[t].via = "direct" \/ th[t].response # NoResponse)

\* process_question, up to handing get_answer to a worker thread
SubmitRequest(t) ==
    /\ t = Worker
    /\ engine = "ready"
    /\ Free(t)
    /\ \E question \in RequestQuestions, image \in Images :
          LET request == [question |-> question, image |-> image]
          IN  th' = [th EXCEPT ![t] =
                        [IdleThread EXCEPT !.pc = "called", !.via = "http",
                                           !.request = request,
                                           !.question = full_question(request)]]
    /\ UNCHANGED << posts_file, content_file, engine, discourse_posts, course_content,
                    loaded, stats, call, norm, loader, scraper >>

\* a caller of QAEngine.get_answer other than the request layer
DirectCall(t) ==
    /\ t = Caller
    /\ engine = "ready"
    /\ Free(t)
    /\ \E question \in DirectQuestions :
          th' = [th EXCEPT ![t] =
                    [IdleThread EXCEPT !.pc = "called", !.via = "direct",
                                       !.question = question]]
    /\ UNCHANGED << posts_file, content_file, engine, discourse_posts, course_content,
                    loaded, stats, call, norm, loader, scraper >>

\* get_answer: the test of the question, then find_similar_posts
GetAnswerBegin(t) ==
    /\ th[t].pc = "called"
    /\ IF IsBlank(th[t].question)
       THEN /\ th' = [th EXCEPT ![t].pc = "returned",
                                ![t].result = [answer |-> << Fixed(ValidQuestionPrompt) >>,
                                               links |-> << >>]]
            /\ UNCHANGED discourse_posts
       ELSE /\ th' = [th EXCEPT ![t].pc = "posts_done",
                                ![t].invoked = Append(@, "find_similar_posts"),
                                ![t].similar_posts =
                                    find_similar_posts(discourse_posts, th[t].question,
                                                       DefaultPostThreshold)]
            /\ discourse_posts' = CorpusAfterRetrieval(discourse_posts)
    /\ UNCHANGED << posts_file, content_file, engine, course_content, loaded, stats,
                    call, norm, loader, scraper >>

\* get_answer: find_relevant_content
GetAnswerContent(t) ==
    /\ th[t].pc = "posts_done"
    /\ th' = [th EXCEPT ![t].pc = "content_done",
                        ![t].invoked = Append(@, "find_relevant_content"),
                        ![t].relevant_content =
                            find_relevant_content(course_content, th[t].question,
                                                  DefaultContentThreshold)]
    /\ course_content' = CorpusAfterRetrieval(course_content)
    /\ UNCHANGED << posts_file, content_file, engine, discourse_posts, loaded, stats,
                    call, norm, loader, scraper >>

\* get_answer: generate_answer, the links, the return
GetAnswerFinish(t) ==
    /\ th[t].pc = "content_done"
    /\ th' = [th EXCEPT ![t].pc = "returned",
                        ![t].invoked = Append(@, "generate_answer"),
                        ![t].result = answer_and_links(th[t].question, th[t].similar_posts,
                                                       th[t].relevant_content)]
    /\ UNCHANGED << posts_file, content_file, engine, discourse_posts, course_content,
                    loaded, stats, call, norm, loader, scraper >>

\* process_question: the QuestionResponse built from what get_answer returned
Respond(t) ==
    /\ th[t].pc = "returned"
    /\ th[t].via = "http"
    /\ th[t].response = NoResponse
    /\ th' = [th EXCEPT ![t].pc = "responded",
                        ![t].response = [status |-> 200,
                                         answer |-> th[t].result.answer,
                                         links |-> th[t].result.links]]
    /\ UNCHANGED << posts_file, content_file, engine, discourse_posts, course_content,
                    loaded, stats, call, norm, loader, scraper >>

\* process_question: asyncio.wait_for gives up after 30 seconds, which it can
\* do until the event loop has taken the result over from the worker thread,
\* also once get_answer has returned there; the worker thread runs on
Timeout(t) ==
    /\ th[t].pc \in {"called", "posts_done", "content_done", "returned"}
    /\ th[t].via = "http"
    /\ th[t].response = NoResponse
    /\ th' = [th EXCEPT ![t].response = [status |-> 408]]
    /\ UNCHANGED << posts_file, content_file, engine, discourse_posts, course_content,
                    loaded, stats, call, norm, loader, scraper >>

\* GET /api/stats
GetStats ==
    /\ engine = "ready"
    /\ stats' = get_stats(discourse_posts, course_content, "now")
    /\ UNCHANGED << posts_file, content_file, engine, discourse_posts, course_content,
                    loaded, th, call, norm, loader, scraper >>

Next ==
    \/ Construct
    \/ SavePostsOpen
    \/ SavePostsDump
    \/ \E t \in Threads : SubmitRequest(t)
    \/ \E t \in Threads : DirectCall(t)
    \/ \E t \in Threads : GetAnswerBegin(t)
    \/ \E t \in Threads : GetAnswerContent(t)
    \/ \E t \in Threads : GetAnswerFinish(t)
    \/ \E t \in Threads : Respond(t)
    \/ \E t \in Threads : Timeout(t)
    \/ GetStats

Spec == Init /\ [][Next]_vars

-----------------------------------------------------------------------------
(* A direct caller of find_similar_posts and find_relevant_content, on an  *)
(* engine that holds a given corpus                                        *)

MaxPosts == 6

MaxContent == 4

RetrievePosts == {PostAt60, PostBelow60, PostAt80, PostAt80ByKeywords}

\* Corpora of posts whose scores differ as doubles only
MaxRoundingPosts == 3

RetrieveContent == {ContentAt50, ContentBelow50, ContentAt60, ContentAt60ByKeyword}

PostThresholds == {DefaultPostThreshold, 80}

ContentThresholds == {DefaultContentThreshold, 60}

\* An engine constructed from files that hold the corpora posts and items
EngineHolding(posts, items) ==
    /\ posts_file = Holding(posts)
    /\ content_file = Holding(items)
    /\ engine = "ready"
    /\ discourse_posts = posts
    /\ course_content = items
    /\ loaded = [discourse_posts |-> posts, course_content |-> items,
                 posts_file |-> Holding(posts), content_file |-> Holding(items)]
    /\ loader = LoaderIdle
    /\ scraper = ScraperIdle
    /\ th = [t \in Threads |-> IdleThread]
    /\ stats = NoStats
    /\ norm = NormIdle

InitRetrieve ==
    \/ /\ \E posts \in SeqsUpTo(RetrievePosts, MaxPosts) : EngineHolding(posts, << >>)
       /\ \E threshold \in PostThresholds :
             call = [NoCall EXCEPT !.question = QSql, !.threshold = threshold]
    \/ /\ \E posts \in SeqsUpTo({PostNearest, PostRoundedUp}, MaxRoundingPosts) :
             EngineHolding(posts, << >>)
       /\ \E threshold \in PostThresholds :
             call = [NoCall EXCEPT !.question = QSql, !.threshold = threshold]
    \/ /\ \E items \in SeqsUpTo(RetrieveContent, MaxContent) : EngineHolding(<< >>, items)
       /\ \E threshold \in ContentThresholds :
             call = [NoCall EXCEPT !.question = QSql, !.threshold = threshold]

CallFindSimilarPosts ==
    /\ engine = "ready"
    /\ call.fn = "none"
    /\ call' = [call EXCEPT !.fn = "find_similar_posts",
                            !.ret = find_similar_posts(discourse_posts, call.question,
                                                       call.threshold)]
    /\ discourse_posts' = CorpusAfterRetrieval(discourse_posts)
    /\ UNCHANGED << posts_file, content_file, engine, course_content, loaded, th, stats,
                    norm, loader, scraper >>

CallFindRelevantContent ==
    /\ engine = "ready"
    /\ call.fn = "none"
    /\ call' = [call EXCEPT !.fn = "find_relevant_content",
                            !.ret = find_relevant_content(course_content, call.question,
                                                          call.threshold)]
    /\ course_content' = CorpusAfterRetrieval(course_content)
    /\ UNCHANGED << posts_file, content_file, engine, discourse_posts, loaded, th, stats,
                    norm, loader, scraper >>

NextRetrieve == CallFindSimilarPosts \/ CallFindRelevantContent

SpecRetrieve == InitRetrieve /\ [][NextRetrieve]_vars

-----------------------------------------------------------------------------
(* A caller who runs load_data again on the constructed engine, which the  *)
(* server of main.py never does, while the scraper may be rewriting the    *)
(* posts file and another caller runs a retrieval method.  The run is in   *)
(* steps: the two files are read one after the other, and the except       *)
(* clause empties the corpora one after the other.                         *)

\* load_data: the posts file is read and self.discourse_posts assigned
LoadDataPosts ==
    /\ engine = "ready"
    /\ loader.pc = "idle"
    /\ IF FileRaises(posts_file)
       THEN /\ loader' = [pc |-> "raised", ran |-> TRUE,
                          posts_file |-> posts_file, content_file |-> content_file]
            /\ UNCHANGED discourse_posts
       ELSE /\ loader' = [pc |-> "posts_loaded", ran |-> TRUE,
                          posts_file |-> posts_file, content_file |-> content_file]
            /\ discourse_posts' =
                   IF posts_file.state = "ok" THEN posts_file.data ELSE << >>
    /\ UNCHANGED << posts_file, content_file, engine, course_content, loaded, scraper, th,
                    stats, call, norm >>

\* load_data: the content file is read and self.course_content assigned
LoadDataContent ==
    /\ loader.pc = "posts_loaded"
    /\ IF FileRaises(content_file)
       THEN /\ loader' = [loader EXCEPT !.pc = "raised", !.content_file = content_file]
            /\ UNCHANGED << course_content, loaded >>
       ELSE /\ loader' = [LoaderIdle EXCEPT !.ran = TRUE]
            /\ course_content' =
                   IF content_file.state = "ok" THEN content_file.data ELSE << >>
            /\ loaded' = [discourse_posts |-> discourse_posts,
                          course_content |-> course_content',
                          posts_file |-> loader.posts_file,
                          content_file |-> content_file]
    /\ UNCHANGED << posts_file, content_file, engine, discourse_posts, scraper, th, stats,
                    call, norm >>

\* load_data, the except clause: self.discourse_posts = []
LoadDataExceptPosts ==
    /\ loader.pc = "raised"
    /\ loader' = [loader EXCEPT !.pc = "clearing"]
    /\ discourse_posts' = << >>
    /\ UNCHANGED << posts_file, content_file, engine, course_content, loaded, scraper, th,
                    stats, call, norm >>

\* load_data, the except clause: self.course_content = []
LoadDataExceptContent ==
    /\ loader.pc = "clearing"
    /\ loader' = [LoaderIdle EXCEPT !.ran = TRUE]
    /\ course_content' = << >>
    /\ loaded' = [discourse_posts |-> discourse_posts,
                  course_content |-> << >>,
                  posts_file |-> loader.posts_file,
                  content_file |-> loader.content_file]
    /\ UNCHANGED << posts_file, content_file, engine, discourse_posts, scraper, th, stats,
                    call, norm >>

InitLoad ==
    /\ posts_file \in PostsFiles
    /\ content_file \in ContentFiles
    /\ engine = "absent"
    /\ discourse_posts = << >>
    /\ course_content = << >>
    /\ loaded = NothingLoaded
    /\ loader = LoaderIdle
    /\ scraper = ScraperIdle
    /\ th = [t \in Threads |-> IdleThread]
    /\ stats = NoStats
    /\ \E threshold \in {DefaultPostThreshold, DefaultContentThreshold} :
          call = [NoCall EXCEPT !.question = QSql, !.threshold = threshold]
    /\ norm = NormIdle

NextLoad ==
    \/ Construct
    \/ LoadDataPosts
    \/ LoadDataContent
    \/ LoadDataExceptPosts
    \/ LoadDataExceptContent
    \/ SavePostsOpen
    \/ SavePostsDump
    \/ CallFindSimilarPosts
    \/ CallFindRelevantContent

SpecLoad == InitLoad /\ [][NextLoad]_vars

-----------------------------------------------------------------------------
(* A direct caller of find_similar_posts(question) and                     *)
(* find_relevant_content(question), which leaves the thresholds at their   *)
(* defaults                                                                *)

MaxDefaultPosts == 3

MaxDefaultContent == 3

DefaultPosts == {PostAt60, PostKeywordsOnly, PostByBonus, PostNoOverlap}

DefaultContent == {ContentAt50, ContentBelow50, ContentByBonus, ContentNoOverlap}

InitDefault ==
    \/ /\ \E posts \in SeqsUpTo(DefaultPosts, MaxDefaultPosts) : EngineHolding(posts, << >>)
       /\ call = [NoCall EXCEPT !.question = QSql, !.threshold = DefaultPostThreshold]
    \/ /\ \E items \in SeqsUpTo(DefaultContent, MaxDefaultContent) :
             EngineHolding(<< >>, items)
       /\ call = [NoCall EXCEPT !.question = QSql, !.threshold = DefaultContentThreshold]

SpecDefault == InitDefault /\ [][NextRetrieve]_vars

-----------------------------------------------------------------------------
(* A direct caller of get_answer, on an engine that holds given corpora    *)

MaxAnswerPosts == 4

MaxAnswerContent == 3

AnswerPosts == {PostLinked, PostBare, PostUnmatched}

AnswerContent == {ContentLinked, ContentBare, ContentUnmatched}

InitAnswer ==
    /\ \E posts \in SeqsUpTo(AnswerPosts, MaxAnswerPosts) :
          \E items \in SeqsUpTo(AnswerContent, MaxAnswerContent) :
             EngineHolding(posts, items)
    /\ \E question \in {QSql, QWhitespace} : call = [NoCall EXCEPT !.question = question]

\* call.ret keeps the two lists get_answer retrieved, when it retrieved
CallGetAnswer ==
    /\ engine = "ready"
    /\ call.fn = "none"
    /\ IF IsBlank(call.question)
       THEN call' = [call EXCEPT !.fn = "get_answer",
                                 !.result = get_answer(discourse_posts, course_content,
                                                       call.question)]
       ELSE \E similar_posts \in {find_similar_posts(discourse_posts, call.question,
                                                     DefaultPostThreshold)} :
               \E relevant_content \in {find_relevant_content(course_content, call.question,
                                                              DefaultContentThreshold)} :
                  call' = [call EXCEPT !.fn = "get_answer",
                                       !.ret = [similar_posts |-> similar_posts,
                                                relevant_content |-> relevant_content],
                                       !.result = answer_and_links(call.question,
                                                                   similar_posts,
                                                                   relevant_content)]
    /\ UNCHANGED << posts_file, content_file, engine, discourse_posts, course_content,
                    loaded, th, stats, norm, loader, scraper >>

NextAnswer == CallGetAnswer

SpecAnswer == InitAnswer /\ [][NextAnswer]_vars

-----------------------------------------------------------------------------
(* A direct caller of preprocess_text *)

MaxTextLen == 3

\* letters, whitespace, a character that is removed, a kept punctuation mark
\* and capitals beyond ASCII: one of Latin-1, the one that becomes two
\* characters, the capital sigma, and KELVIN SIGN, which becomes the ASCII k
NormAlphabet ==
    {"a", "B", "_", " ", "\t", "\r", "@", "-", "É", CapitalIWithDot, CapitalSigma, "U+212A"}

InitNorm ==
    /\ posts_file = Missing
    /\ content_file = Missing
    /\ engine = "absent"
    /\ discourse_posts = << >>
    /\ course_content = << >>
    /\ loaded = NothingLoaded
    /\ loader = LoaderIdle
    /\ scraper = ScraperIdle
    /\ th = [t \in Threads |-> IdleThread]
    /\ stats = NoStats
    /\ call = NoCall
    /\ \E x \in SeqsUpTo(NormAlphabet, MaxTextLen) \cup {None} :
          norm = [NormIdle EXCEPT !.pc = "input", !.text = x]

Normalize ==
    /\ norm.pc = "input"
    /\ norm' = [norm EXCEPT !.pc = "once", !.once = preprocess_text(norm.text)]
    /\ UNCHANGED << posts_file, content_file, engine, discourse_posts, course_content,
                    loaded, th, stats, call, loader, scraper >>

NormalizeAgain ==
    /\ norm.pc = "once"
    /\ norm' = [norm EXCEPT !.pc = "twice", !.twice = preprocess_text(norm.once)]
    /\ UNCHANGED << posts_file, content_file, engine, discourse_posts, course_content,
                    loaded, th, stats, call, loader, scraper >>

NextNorm == Normalize \/ NormalizeAgain

SpecNorm == InitNorm /\ [][NextNorm]_vars

-----------------------------------------------------------------------------
(* Claims about retrieval, checked under SpecRetrieve                      *)

MaxKeywordCount == 5

\* The call of find_similar_posts or find_relevant_content has returned
PostsReturned == call.fn = "find_similar_posts"

ContentReturned == call.fn = "find_relevant_content"

\* The final_score of every corpus post and item against the question of
\* the call, computed from the record, in corpus order
PostScores ==
    LET question_processed == preprocess_text(call.question)
        keywords == extract_keywords(call.question)
    IN  SelectSeq([i \in DOMAIN discourse_posts |->
                      ScoredPost(discourse_posts[i], question_processed, keywords).score],
                  LAMBDA x : TRUE)

ContentScores ==
    LET question_processed == preprocess_text(call.question)
        keywords == extract_keywords(call.question)
    IN  SelectSeq([i \in DOMAIN course_content |->
                      ScoredContent(course_content[i], question_processed, keywords).score],
                  LAMBDA x : TRUE)

\* The indices of scores that meet the threshold of the call
Meeting(scores) == {i \in DOMAIN scores : scores[i] >= ScoreUnit * call.threshold}

\* The fuzzy score of a returned content entry
ContentFuzzy(m) ==
    partial_ratio(preprocess_text(call.question), preprocess_text(ContentText(m.content)))

\* Every entry of ret is a record of corpus with the final_score of that
\* record, and that score is at least the threshold of the call
FromCorpusAndMeeting(ret, field, corpus, scores) ==
    \A i \in DOMAIN ret :
        /\ \E j \in DOMAIN scores : ret[i][field] = corpus[j] /\ ret[i].score = scores[j]
        /\ ret[i].score >= ScoreUnit * call.threshold

\* C1: every entry find_similar_posts and find_relevant_content return has a
\* final_score, its fuzzy score plus its keyword bonus (for a post the double
\* nearest to that sum or the next one above), that is at least the threshold
\* of the call.
C1_ThresholdMet ==
    /\ PostsReturned =>
          /\ FromCorpusAndMeeting(call.ret, "post", discourse_posts, PostScores)
          /\ \A i \in DOMAIN call.ret :
                LET m == call.ret[i]
                IN  m.score - (Max(ScoreUnit * m.title_score,
                                   ContentWeight * m.content_score)
                                + ScoreUnit * Min(PostKeywordWeight * m.keyword_matches,
                                                  PostBonusCap)) \in {0, 1}
    /\ ContentReturned =>
          /\ FromCorpusAndMeeting(call.ret, "content", course_content, ContentScores)
          /\ \A i \in DOMAIN call.ret :
                LET m == call.ret[i]
                IN  m.score = ScoreUnit * ContentFuzzy(m)
                                + ScoreUnit * Min(ContentKeywordWeight * m.keyword_matches,
                                                  ContentBonusCap)

\* A call returned an entry that is exactly at the threshold, and left out a
\* corpus record that is below it
C1_Witness ==
    \/ /\ PostsReturned
       /\ \E i \in DOMAIN call.ret : call.ret[i].score = ScoreUnit * call.threshold
       /\ \E i \in DOMAIN discourse_posts : PostScores[i] < ScoreUnit * call.threshold
    \/ /\ ContentReturned
       /\ \E i \in DOMAIN call.ret : call.ret[i].score = ScoreUnit * call.threshold
       /\ \E i \in DOMAIN course_content : ContentScores[i] < ScoreUnit * call.threshold

\* C2: find_similar_posts returns at most 5 entries and find_relevant_content
\* at most 3, however many corpus records meet the threshold.
C2_TopK ==
    /\ PostsReturned => Len(call.ret) <= 5
    /\ ContentReturned => Len(call.ret) <= 3

\* More records meet the threshold than the call may return
C2_Witness ==
    \/ PostsReturned /\ Cardinality(Meeting(PostScores)) > 5 /\ Len(call.ret) = 5
    \/ ContentReturned /\ Cardinality(Meeting(ContentScores)) > 3 /\ Len(call.ret) = 3

\* The index that comes n-th when the indices S are ordered by descending
\* score, equal scores by ascending index
NthByScore(S, scores, n) ==
    CHOOSE i \in S :
        Cardinality({j \in S : scores[j] > scores[i] \/ (scores[j] = scores[i] /\ j < i)})
            = n - 1

\* ret holds the first k, in the stable descending order of their scores, of
\* the records of corpus that meet the threshold
FirstByScore(ret, field, corpus, scores, k) ==
    LET meeting == Meeting(scores)
    IN  /\ Len(ret) = Min(k, Cardinality(meeting))
        /\ \A n \in DOMAIN ret :
              LET i == NthByScore(meeting, scores, n)
              IN  ret[n][field] = corpus[i] /\ ret[n].score = scores[i]
        /\ \A n \in DOMAIN ret : \A m \in DOMAIN ret :
              n < m => ret[n].score >= ret[m].score

\* C7: the returned list is ordered by non-increasing final_score, entries of
\* equal final_score keep their corpus order, and the list holds the first k
\* records of that stable descending order of the records that meet the
\* threshold.
C7_StableDescending ==
    /\ PostsReturned =>
          LET scores == PostScores
          IN  FirstByScore(call.ret, "post", discourse_posts, scores, 5)
    /\ ContentReturned =>
          LET scores == ContentScores
          IN  FirstByScore(call.ret, "content", course_content, scores, 3)

\* Six posts meet the threshold, the sixth ties with the fifth and differs
\* from it, and two different posts of equal score are both returned
C7_Witness ==
    /\ PostsReturned
    /\ LET scores == PostScores
           meeting == Meeting(scores)
       IN  /\ Cardinality(meeting) > 5
           /\ LET fifth == NthByScore(meeting, scores, 5)
                  sixth == NthByScore(meeting, scores, 6)
              IN  /\ scores[fifth] = scores[sixth]
                  /\ discourse_posts[fifth] # discourse_posts[sixth]
    /\ \E n \in DOMAIN call.ret : \E k \in DOMAIN call.ret :
          /\ n < k
          /\ call.ret[n].score = call.ret[k].score
          /\ call.ret[n].post # call.ret[k].post

\* C10: with the fuzzy scores of a returned record fixed, its final_score does
\* not fall when one more keyword of the question is found in it: the bonus
\* is min(10 * n, 30) for posts, added as doubles add, and min(15 * n, 40)
\* for content items.
C10_KeywordMonotone ==
    /\ PostsReturned =>
          \A i \in DOMAIN call.ret : \A n \in 0..MaxKeywordCount :
             LET with(k) == PostFinalScore(call.ret[i].title_score,
                                           call.ret[i].content_score, k)
             IN  /\ with(n + 1) >= with(n)
                 /\ with(n) - (with(0) + ScoreUnit * Min(10 * n, 30)) \in {-1, 0, 1}
    /\ ContentReturned =>
          LET scored == call.ret
          IN  \A i \in DOMAIN scored :
                 LET score == ContentFuzzy(scored[i])
                     with(k) == ContentFinalScore(score, k)
                 IN  \A n \in 0..MaxKeywordCount :
                        /\ with(n + 1) >= with(n)
                        /\ with(n) = with(0) + ScoreUnit * Min(15 * n, 40)

\* A returned entry matched keywords, and scores more than it would with one
\* keyword fewer
C10_Witness ==
    \/ /\ PostsReturned
       /\ \E i \in DOMAIN call.ret :
             LET m == call.ret[i]
             IN  /\ m.keyword_matches >= 2
                 /\ m.score > PostFinalScore(m.title_score, m.content_score,
                                             m.keyword_matches - 1)
    \/ /\ ContentReturned
       /\ \E i \in DOMAIN call.ret :
             LET m == call.ret[i]
             IN  /\ m.keyword_matches >= 1
                 /\ m.score > ContentFinalScore(ContentFuzzy(m), m.keyword_matches - 1)

-----------------------------------------------------------------------------
(* Claims about get_answer, checked under SpecAnswer                       *)

\* The call of get_answer has returned
AnswerReturned == call.fn = "get_answer"

\* The question is None, empty or made of whitespace only
BlankQuestion(question) ==
    question = None \/ \A i \in DOMAIN question : question[i] \in Whitespace

\* One entry per retrieved record, content first: its url ("" when it has
\* none) and its link text
EntriesOf(content, posts) ==
    [i \in DOMAIN content |->
        [url |-> Get(content[i].content, "url", ""),
         text |-> [label |-> "Course Material: ",
                   title |-> Get(content[i].content, "title", Untitled)]]]
    \o [i \in DOMAIN posts |->
           [url |-> Get(posts[i].post, "url", ""),
            text |-> [label |-> "Forum Discussion: ",
                      title |-> Get(posts[i].post, "title", UntitledPost)]]]

\* The entries of what the two retrieval calls of get_answer returned
LinkEntries ==
    SelectSeq(EntriesOf(call.ret.relevant_content, call.ret.similar_posts), LAMBDA x : TRUE)

\* The n-th smallest element of the set of numbers S
NthOf(S, n) == CHOOSE i \in S : Cardinality({j \in S : j < i}) = n - 1

\* C3: the links get_answer returns are the first 5 of the entries formed by
\* the retrieved content items that have a url, in ranked order, followed by
\* the retrieved posts that have a url, in ranked order; records without a
\* url give no entry, repeated urls stay, and there are never more than 5.
C3_LinksFirstFive ==
    AnswerReturned /\ ~BlankQuestion(call.question) =>
        LET entries == LinkEntries
            kept == {i \in DOMAIN entries : entries[i].url # ""}
            links == call.result.links
        IN  /\ Len(links) = Min(5, Cardinality(kept))
            /\ Len(links) <= 5
            /\ \A n \in DOMAIN links : links[n] = entries[NthOf(kept, n)]

\* More than five retrieved records have a url, one retrieved record has
\* none, two links share a url, and links of both kinds are returned
C3_Witness ==
    /\ AnswerReturned
    /\ ~BlankQuestion(call.question)
    /\ LET entries == LinkEntries
       IN  /\ Cardinality({i \in DOMAIN entries : entries[i].url # ""}) > 5
           /\ \E i \in DOMAIN entries : entries[i].url = ""
    /\ Len(call.result.links) = 5
    /\ \E n, m \in DOMAIN call.result.links :
          n < m /\ call.result.links[n].url = call.result.links[m].url
    /\ \E n, m \in DOMAIN call.result.links :
          /\ call.result.links[n].text.label = "Course Material: "
          /\ call.result.links[m].text.label = "Forum Discussion: "

\* No post of the corpus reaches 60 and no content item reaches 50 against
\* the question of the call
NothingRetrieved ==
    LET post_scores == PostScores
        content_scores == ContentScores
    IN  /\ \A i \in DOMAIN post_scores : post_scores[i] < ScoreUnit * 60
        /\ \A i \in DOMAIN content_scores : content_scores[i] < ScoreUnit * 50

\* C6: for a question that is not blank, get_answer returns the fixed
\* fallback message exactly when nothing is retrieved (no post reaches 60 and
\* no content item reaches 50, or the corpora are empty), then with no
\* links; when something is retrieved the answer starts with the lead-in
\* sentence.
C6_FallbackIffNothing ==
    AnswerReturned /\ ~BlankQuestion(call.question) =>
        LET nothing == NothingRetrieved
            fallback == "I couldn't find specific information related to your question in the current knowledge base. Please try rephrasing your question or contact the course instructor for assistance."
            lead_in == "Based on the available course materials and forum discussions, here's what I found:"
        IN  /\ call.result.answer = << Fixed(fallback) >> <=> nothing
            /\ nothing => call.result.links = << >>
            /\ ~nothing => /\ Len(call.result.answer) > 1
                           /\ call.result.answer[1] = Fixed(lead_in)

\* The fallback is returned although both corpora hold records with a url
C6_Witness ==
    /\ AnswerReturned
    /\ ~BlankQuestion(call.question)
    /\ \E i \in DOMAIN discourse_posts : HasUrl(discourse_posts[i])
    /\ \E i \in DOMAIN course_content : HasUrl(course_content[i])
    /\ call.result = [answer |-> << Fixed(Fallback) >>, links |-> << >>]

\* The bullet lines of an answer, in order
BulletLines(answer) == SelectSeq(answer, LAMBDA part : part.kind = "bullet")

\* The bullet lines of the answer are those of the first two of content
\* followed by those of the first two of posts, and nothing else
BulletsOfTopTwo(answer, content, posts) ==
    LET bullets == BulletLines(answer)
        n_content == Min(2, Len(content))
        n_posts == Min(2, Len(posts))
    IN  /\ Len(bullets) = n_content + n_posts
        /\ \A i \in 1..n_content : bullets[i] = ContentBullet(content[i])
        /\ \A i \in 1..n_posts : bullets[n_content + i] = PostBullet(posts[i])

\* C12: the answer holds a bullet line for the 2 highest-ranked retrieved
\* content items and the 2 highest-ranked retrieved posts at most, also when
\* 3 content items or more than 2 posts are retrieved; the items beyond the
\* second of a type show in the links only, when they have a url.
C12_TwoBulletsPerType ==
    AnswerReturned /\ ~BlankQuestion(call.question) =>
        BulletsOfTopTwo(call.result.answer, call.ret.relevant_content,
                        call.ret.similar_posts)

\* Three content items and four posts are retrieved, the answer has four
\* bullet lines; the third content item has a link and no bullet line, and
\* three posts have a link while two have a bullet line
C12_Witness ==
    /\ AnswerReturned
    /\ ~BlankQuestion(call.question)
    /\ Len(call.ret.relevant_content) = 3
    /\ Len(call.ret.similar_posts) = 4
    /\ LET bullets == BulletLines(call.result.answer)
           links == call.result.links
       IN  /\ Len(bullets) = 4
           /\ Len(links) = 4
           /\ links[1].text.label = "Course Material: "
           /\ \A i \in DOMAIN bullets : bullets[i].title # links[1].text.title
           /\ \A n \in 2..4 : links[n].text.label = "Forum Discussion: "

-----------------------------------------------------------------------------
(* Claims about preprocess_text, checked under SpecNorm                    *)

\* text has no two whitespace characters in a row and none at either end
NoExtraWhitespace(text) ==
    /\ \A i \in DOMAIN text : i < Len(text) =>
          ~(text[i] \in Whitespace /\ text[i + 1] \in Whitespace)
    /\ text # << >> => text[1] \notin Whitespace /\ text[Len(text)] \notin Whitespace

\* C4: preprocess_text(preprocess_text(x)) = preprocess_text(x) for every
\* string x, and preprocess_text(x) has no two whitespace characters in a row
\* and no whitespace at either end.
C4_Idempotent ==
    /\ norm.pc \in {"once", "twice"} => NoExtraWhitespace(norm.once)
    /\ norm.pc = "twice" => norm.twice = norm.once

-----------------------------------------------------------------------------
(* Claims about the engine and its callers, checked under Spec             *)

\* Thread t has left get_answer
Returned(t) == th[t].pc \in {"returned", "responded"}

\* C5: when the question passed to get_answer is None, empty or made of
\* whitespace only, get_answer returns 'Please provide a valid question.'
\* with no links, and calls neither find_similar_posts nor
\* find_relevant_content, whatever the corpora hold.
C5_BlankQuestion ==
    \A t \in Threads :
        th[t].pc # "idle" /\ BlankQuestion(th[t].question) =>
            /\ th[t].invoked = << >>
            /\ th[t].pc \notin {"posts_done", "content_done"}
            /\ Returned(t) =>
                  th[t].result = [answer |-> << Fixed("Please provide a valid question.") >>,
                                  links |-> << >>]

\* Over corpora that hold records, one thread has returned from a call with
\* a whitespace-only question and the other from a call with None
C5_Witness ==
    /\ discourse_posts # << >>
    /\ course_content # << >>
    /\ Returned(Worker) /\ th[Worker].question = QWhitespace
    /\ Returned(Caller) /\ th[Caller].question = None

\* C8: request handling never changes the corpora: in every state reached by
\* any interleaving of the threads' get_answer steps and of get_stats, both
\* corpora are what load_data produced from the files as it found them,
\* whatever has become of the posts file since, and the result of every
\* get_answer call is the result of the same call run alone on those corpora.
C8_CorporaReadOnly ==
    engine = "ready" =>
        LET produced == load_data(loaded.posts_file, loaded.content_file)
        IN  /\ discourse_posts = produced.discourse_posts
            /\ course_content = produced.course_content
            /\ \A t \in Threads :
                  Returned(t) =>
                      th[t].result = get_answer(produced.discourse_posts,
                                                produced.course_content, th[t].question)
            /\ stats # NoStats =>
                  stats = get_stats(produced.discourse_posts, produced.course_content, "now")

\* While the worker thread is between the two retrieval calls of a request
\* that has timed out, the other thread has returned an answer with links
\* from the same corpora, and get_stats has run; the scraper has rewritten
\* the posts file since the engine loaded it
C8_Witness ==
    /\ posts_file # loaded.posts_file
    /\ Len(discourse_posts) > 1
    /\ course_content # << >>
    /\ th[Worker].pc = "posts_done"
    /\ th[Worker].response = [status |-> 408]
    /\ th[Caller].pc = "returned"
    /\ th[Caller].result.links # << >>
    /\ stats.total_items > 2

\* The images from which no text comes: OCR raises at one of its three steps,
\* or reads nothing but whitespace
FailingImages == {"undecodable", "unopenable", "unreadable", "blank"}

\* C11: when OCR of the image of a request fails (decoding, opening or text
\* extraction raises) or yields empty text, process_question hands exactly
\* request.question to get_answer, no error response comes of the failure,
\* and the answer is the one the same request gets without an image.
C11_OcrFallback ==
    \A t \in Threads :
        th[t].via = "http" /\ th[t].request.image \in FailingImages =>
            LET without_image == [question |-> th[t].request.question, image |-> "none"]
                alone == get_answer(discourse_posts, course_content,
                                    full_question(without_image))
            IN  /\ th[t].question = th[t].request.question
                /\ th[t].response.status \in {0, 200, 408}
                /\ Returned(t) => th[t].result = alone
                /\ th[t].pc = "responded" =>
                      th[t].response = [status |-> 200, answer |-> alone.answer,
                                        links |-> alone.links]

\* A request whose image is not base64 has been answered with links, over
\* corpora that hold records
C11_Witness ==
    /\ th[Worker].pc = "responded"
    /\ th[Worker].request = [question |-> QSql, image |-> "undecodable"]
    /\ th[Worker].response.status = 200
    /\ th[Worker].response.links # << >>

-----------------------------------------------------------------------------
(* Claims about the default thresholds, checked under SpecDefault          *)

\* C14: at the default thresholds the keyword bonus alone makes no record
\* pass: every post find_similar_posts returns has
\* max(title_score, 0.8 * content_score) >= 30, every content item
\* find_relevant_content returns has a fuzzy score >= 10, and a record whose
\* fuzzy score is 0 is never returned.
C14_BonusAloneNeverPasses ==
    /\ PostsReturned /\ call.threshold = 60 =>
          /\ \A i \in DOMAIN call.ret :
                /\ combined_score(call.ret[i].title_score,
                                  call.ret[i].content_score) >= ScoreUnit * 30
                /\ Max(call.ret[i].title_score, call.ret[i].content_score) > 0
          /\ LET question_processed == preprocess_text(call.question)
             IN  \A j \in DOMAIN discourse_posts :
                    partial_ratio(question_processed,
                                  preprocess_text(PostText(discourse_posts[j]))) = 0
                        => \A i \in DOMAIN call.ret : call.ret[i].post # discourse_posts[j]
    /\ ContentReturned /\ call.threshold = 50 =>
          /\ \A i \in DOMAIN call.ret : ContentFuzzy(call.ret[i]) >= 10
          /\ LET question_processed == preprocess_text(call.question)
             IN  \A j \in DOMAIN course_content :
                    partial_ratio(question_processed,
                                  preprocess_text(ContentText(course_content[j]))) = 0
                        => \A i \in DOMAIN call.ret :
                              call.ret[i].content # course_content[j]

\* A post that owes its place to a bonus at the cap is returned, while a post
\* of the corpus with four keyword matches and a post that shares nothing
\* with the question are not
C14_Witness ==
    /\ PostsReturned
    /\ call.threshold = 60
    /\ \E i \in DOMAIN call.ret :
          /\ call.ret[i].keyword_matches > 3
          /\ call.ret[i].score - ScoreUnit * 30 < ScoreUnit * 60
    /\ \E j \in DOMAIN discourse_posts :
          /\ discourse_posts[j] = PostKeywordsOnly
          /\ \A i \in DOMAIN call.ret : call.ret[i].post # PostKeywordsOnly
    /\ \E j \in DOMAIN discourse_posts :
          /\ discourse_posts[j] = PostNoOverlap
          /\ \A i \in DOMAIN call.ret : call.ret[i].post # PostNoOverlap

-----------------------------------------------------------------------------
(* Claims about load_data, checked under SpecLoad                          *)

\* C9: when a corpus file is missing, unreadable or holds malformed JSON as
\* load_data finds it, constructing the engine does not raise, the corpus of
\* that file is empty after load_data, and the retrieval function of that
\* corpus returns the empty list for every question.
C9_LoadFailureIsEmpty ==
    /\ engine # "failed"
    /\ engine = "ready" /\ loader.pc = "idle" /\ loaded.posts_file.state # "ok" =>
          /\ discourse_posts = << >>
          /\ \A q \in RequestQuestions \cup {full_question([question |-> QSql,
                                                             image |-> "with_text"])} :
                find_similar_posts(discourse_posts, q, DefaultPostThreshold) = << >>
          /\ ~loader.ran /\ PostsReturned => call.ret = << >>
    /\ engine = "ready" /\ loader.pc = "idle" /\ loaded.content_file.state # "ok" =>
          /\ course_content = << >>
          /\ \A q \in RequestQuestions \cup {full_question([question |-> QSql,
                                                             image |-> "with_text"])} :
                find_relevant_content(course_content, q, DefaultContentThreshold) = << >>
          /\ ~loader.ran /\ ContentReturned => call.ret = << >>

\* A second run of load_data has found the posts file empty, as the scraper
\* that is rewriting it has left it for now, and a content file that holds
\* records; find_similar_posts has returned the empty list
C9_Witness ==
    /\ engine = "ready"
    /\ loader.ran
    /\ loader.pc = "idle"
    /\ scraper.pc = "writing"
    /\ loaded.posts_file = Malformed
    /\ loaded.content_file.state = "ok"
    /\ loaded.content_file.data # << >>
    /\ discourse_posts = << >>
    /\ PostsReturned
    /\ call.ret = << >>

\* C13: load failures are isolated per corpus: after load_data, posts read
\* from a valid posts file are held also when loading the content file
\* fails, and content read from a valid content file is held also when
\* loading the posts file fails.
C13_LoadIsolated ==
    engine = "ready" /\ loader.pc = "idle" =>
        /\ loaded.posts_file.state = "ok" /\ FileRaises(loaded.content_file) =>
              discourse_posts = loaded.posts_file.data /\ course_content = << >>
        /\ loaded.content_file.state = "ok" /\ FileRaises(loaded.posts_file) =>
              course_content = loaded.content_file.data /\ discourse_posts = << >>

=============================================================================
